---- MODULE Spec2Model ----
(***************************************************************************)
(* A model of the nestor NES emulator core (crate `nestor`): the PPU dot   *)
(* and scanline counters with vblank / NMI generation, the bus that        *)
(* co-steps the PPU with the CPU, the CPU step's cycle accounting, the     *)
(* joypad latch and the NES front door (emulate_frame).                    *)
(***************************************************************************)
EXTENDS Integers, Sequences, FiniteSets, TLC

(***************************************************************************)
(* Bounds of the model (not program constants).                            *)
(***************************************************************************)
\* frames a run is followed for (guards stop once frame_count reaches it)
MaxFrames == 3
\* largest cycle count handed to Bus::tick in the bus-only specification
MaxTickCycles == 3
\* joypad reads counted since the last strobe 1->0 transition (saturating)
MaxReads == 9
\* frames the emulator is followed for
MaxNesFrames == 2
\* frames run under the bus alone
MaxBusFrames == 1
\* instruction slots (of 2 CPU cycles, 6 dots) at the start of scanline 241
\* in which the program may touch a PPU port
PortWindow == 4

(***************************************************************************)
(* Program constants.                                                      *)
(***************************************************************************)
LAST_CYCLE == 340
LAST_SCANLINE == 261
PRE_RENDER == 261
VBLANK_SCANLINE == 241
NMI_CYCLES == 7

\* register addresses (ppu.rs 25-32), as the low three bits select them
PPUCTRL == 8192
PPUMASK == 8193
PPUSTATUS == 8194
OAMADDR == 8195
OAMDATA == 8196
PPUSCROLL == 8197
PPUADDR == 8198
PPUDATA == 8199

(***************************************************************************)
(* Bit helpers for u8 values.                                              *)
(***************************************************************************)
Pow2(i) == 2 ^ i

TestBit(byte, i) == (byte \div Pow2(i)) % 2 = 1

\* byte | mask, for a one-bit mask 1 << i
SetBit(byte, i) == IF TestBit(byte, i) THEN byte ELSE byte + Pow2(i)

\* byte & !mask, for a one-bit mask 1 << i
ClearBit(byte, i) == IF TestBit(byte, i) THEN byte - Pow2(i) ELSE byte

RECURSIVE BitAndFrom(_, _, _)
BitAndFrom(a, b, i) ==
    IF i > 7 THEN 0
    ELSE (IF TestBit(a, i) /\ TestBit(b, i) THEN Pow2(i) ELSE 0)
         + BitAndFrom(a, b, i + 1)

\* a & b on u8
BitAnd(a, b) == BitAndFrom(a, b, 0)

RECURSIVE BitOrFrom(_, _, _)
BitOrFrom(a, b, i) ==
    IF i > 7 THEN 0
    ELSE (IF TestBit(a, i) \/ TestBit(b, i) THEN Pow2(i) ELSE 0)
         + BitOrFrom(a, b, i + 1)

\* a | b on u8
BitOr(a, b) == BitOrFrom(a, b, 0)

(***************************************************************************)
(* PPU registers (modules control, mask, status of the PPU).  The modules  *)
(* are not among the sources at hand; the bit positions are those of the   *)
(* NES registers the specification's register table names.                 *)
(***************************************************************************)
\* ControlRegister::generate_vblank_nmi: bit 7 of PPUCTRL
generate_vblank_nmi(ctrl) == TestBit(ctrl, 7)

\* MaskRegister::show_background: bit 3 of PPUMASK
show_background(mask) == TestBit(mask, 3)

\* MaskRegister::show_sprites: bit 4 of PPUMASK
show_sprites(mask) == TestBit(mask, 4)

\* MaskRegister::rendering_enabled
rendering_enabled(mask) == show_background(mask) \/ show_sprites(mask)

(***************************************************************************)
(* State.                                                                  *)
(***************************************************************************)
VARIABLES
    ppu,        \* the PPU's fields (struct PPU)
    joypad1,    \* the first joypad latch (struct Joypad)
    cpu,        \* the CPU's cycle counter (struct CPU)
    status,     \* NES::status (EmulationStatus)
    desk,       \* the desktop frontend: the mutex around the NES and its holder
    core,       \* the CPU's registers and the memory behind its bus
    vmem,       \* the PPU's memories: OAM, nametable RAM, the cartridge mirroring
    obs         \* what the last operation did and returned (observation)

vars == <<ppu, joypad1, cpu, status, desk, core, vmem, obs>>

\* PPU::new
PPU_new ==
    [ scanline      |-> 0,
      cycle         |-> 0,
      frame_count   |-> 0,
      odd_frame     |-> FALSE,
      mask          |-> 0,
      ctrl          |-> 0,
      vblank        |-> FALSE,
      nmi_interrupt |-> FALSE,
      suppress_vbl  |-> FALSE,
      data_bus      |-> 0,
      w             |-> FALSE ]

\* Joypad::new
Joypad_new == [ strobe |-> FALSE, button_index |-> 0, button_status |-> 0 ]

\* CPU::new (only the cycle counter is modelled)
CPU_new == [ cycles |-> 0 ]

\* Arc::new(Mutex::new(NES::new())): the mutex free, no message being handled
Desk_new == [ mutex |-> "free", message |-> "none" ]

(***************************************************************************)
(* The CPU core (cpu.rs): registers, status flags, the stack in page 1 of  *)
(* the CPU RAM.  RAM is kept sparse: an address never written reads 0, as  *)
(* in the zeroed cpu_vram.  The two vectors are what the cartridge holds   *)
(* at 0xFFFA/0xFFFB and 0xFFFE/0xFFFF.                                     *)
(***************************************************************************)
CARRY_FLAG == 1
ZERO_FLAG == 2
IRQ_FLAG == 4
DECIMAL_FLAG == 8
BREAK_FLAG == 16
OVERFLOW_FLAG == 64
NEGATIVE_FLAG == 128
STACK_RESET == 253
\* processor_status: 0x24 in CPU::new and CPU::reset
STATUS_RESET == 36
\* the base of the stack page, 0x0100
STACK_BASE == 256

\* u8 and u16 wrapping
U8(n) == n % 256
U16(n) == n % 65536

RECURSIVE BitXorFrom(_, _, _)
BitXorFrom(a, b, i) ==
    IF i > 7 THEN 0
    ELSE (IF TestBit(a, i) # TestBit(b, i) THEN Pow2(i) ELSE 0)
         + BitXorFrom(a, b, i + 1)

BitXor(a, b) == BitXorFrom(a, b, 0)

\* CPU::new, with the vectors the cartridge holds
Core_new ==
    [ register_a |-> 0, register_x |-> 0, register_y |-> 0,
      processor_status |-> STATUS_RESET,
      stack_pointer |-> STACK_RESET,
      program_counter |-> 0,
      cycles |-> 0,
      ram |-> <<>>,
      nmi_vector |-> 0, irq_vector |-> 0 ]

\* Bus::mem_read / mem_write on the CPU RAM
mem_read(c, addr) == IF addr \in DOMAIN c.ram THEN c.ram[addr] ELSE 0

mem_write(c, addr, data) ==
    [c EXCEPT !.ram = [a \in (DOMAIN c.ram) \cup {addr} |->
                          IF a = addr THEN data ELSE c.ram[a]]]

\* CPU::get_flag, CPU::set_flag (flag is a one-bit mask)
get_flag(c, flag) == (c.processor_status \div flag) % 2 = 1

set_flag(c, flag, on) ==
    [c EXCEPT !.processor_status =
        IF on THEN BitOr(@, flag) ELSE BitAnd(@, 255 - flag)]

\* set_flags loading the byte as it is
set_flags_NoMask(c, value) == [c EXCEPT !.processor_status = value]

\* CPU::set_flags: (value | 0x30) - 0x10
set_flags(c, value) ==
    [c EXCEPT !.processor_status = BitOr(value, 48) - 16]

\* CPU::set_zero_and_negative_flags
set_zero_and_negative_flags(c, value) ==
    set_flag(set_flag(c, ZERO_FLAG, value = 0),
             NEGATIVE_FLAG, BitAnd(value, 128) # 0)

\* CPU::push_stack
push_stack(c, v) ==
    [mem_write(c, c.stack_pointer + STACK_BASE, v)
        EXCEPT !.stack_pointer = U8(@ + 255)]

\* CPU::push_stack16: high byte, then low byte
push_stack16(c, v) == push_stack(push_stack(c, (v \div 256) % 256), v % 256)

\* pop_stack with the stack pointer incremented past 0xFF instead of wrapping
pop_stack_NoWrap(c) ==
    LET sp == c.stack_pointer + 1
    IN [ core |-> [c EXCEPT !.stack_pointer = sp],
         ret |-> mem_read(c, sp + STACK_BASE) ]

\* CPU::pop_stack: the new core and the byte pulled
pop_stack(c) ==
    LET sp == U8(c.stack_pointer + 1)
    IN [core |-> [c EXCEPT !.stack_pointer = sp],
        ret |-> mem_read(c, sp + STACK_BASE)]

\* CPU::pop_stack16: low byte, then high byte
pop_stack16(c) ==
    LET lsb == pop_stack(c)
        msb == pop_stack(lsb.core)
    IN [core |-> msb.core, ret |-> msb.ret * 256 + lsb.ret]

\* page_cross
page_cross(addr1, addr2) == (addr1 \div 256) # (addr2 \div 256)

\* i8 as u16: the sign-extended branch offset
SignExtend(offset) == IF offset >= 128 THEN 65280 + offset ELSE offset

(***************************************************************************)
(* An instruction as the CPU meets it: the table entry (mnemonic, mode,    *)
(* len, cycles), the operand bytes that follow the opcode (operand: a byte *)
(* or a little-endian word), for IndirectY the pointer the zero page       *)
(* holds (deref_base), and the byte the bus returns at the effective       *)
(* address (value).  Memory outside the stack page is not kept: what is    *)
(* read there is an input, what is stored there is dropped.                *)
(***************************************************************************)
\* CPU::get_address_by_addressing_mode at self.program_counter
get_operand_address(c, instr) ==
    CASE instr.mode \in {"Immediate", "Implied"} ->
            [addr |-> c.program_counter, page_cross |-> FALSE]
      [] instr.mode = "Absolute" ->
            [addr |-> instr.operand, page_cross |-> FALSE]
      [] instr.mode = "AbsoluteX" ->
            LET addr == U16(instr.operand + c.register_x)
            IN [addr |-> addr, page_cross |-> page_cross(instr.operand, addr)]
      [] instr.mode = "AbsoluteY" ->
            LET addr == U16(instr.operand + c.register_y)
            IN [addr |-> addr, page_cross |-> page_cross(instr.operand, addr)]
      [] instr.mode = "IndirectY" ->
            LET deref == U16(instr.deref_base + c.register_y)
            IN [addr |-> deref, page_cross |-> page_cross(deref, instr.deref_base)]

\* the tail of the reading instructions: if page_cross { self.cycles += 1 }
page_cross_cycle(c, instr) ==
    IF get_operand_address(c, instr).page_cross
    THEN [c EXCEPT !.cycles = @ + 1] ELSE c

\* adc with the carry out taken one too early (result >= 255)
adc_CarryAt255(c, instr) ==
    LET value == instr.value
        sum == c.register_a + value
                 + (IF get_flag(c, CARRY_FLAG) THEN 1 ELSE 0)
        result == U8(sum)
        c1 == set_flag(c, CARRY_FLAG, sum >= 255)
        c2 == set_flag(c1, OVERFLOW_FLAG,
                  BitAnd(BitAnd(BitXor(c.register_a, result),
                                BitXor(value, result)), 128) = 128)
        c3 == set_zero_and_negative_flags(c2, result)
    IN page_cross_cycle([c3 EXCEPT !.register_a = result], instr)

\* CPU::adc
adc(c, instr) ==
    LET value == instr.value
        sum == c.register_a + value
                 + (IF get_flag(c, CARRY_FLAG) THEN 1 ELSE 0)
        result == U8(sum)
        c1 == set_flag(c, CARRY_FLAG, sum > 255)
        c2 == set_flag(c1, OVERFLOW_FLAG,
                  BitAnd(BitAnd(BitXor(c.register_a, result),
                                BitXor(value, result)), 128) = 128)
        c3 == set_zero_and_negative_flags(c2, result)
    IN page_cross_cycle([c3 EXCEPT !.register_a = result], instr)

\* CPU::sbc: two overflowing_sub, carry is "no borrow"
sbc(c, instr) ==
    LET value == instr.value
        accumulator == c.register_a
        carry_flag == IF get_flag(c, CARRY_FLAG) THEN 1 ELSE 0
        v1 == U8(accumulator - value + 256)
        o1 == accumulator < value
        result == U8(v1 - (1 - carry_flag) + 256)
        o2 == v1 < (1 - carry_flag)
        c1 == set_flag(c, CARRY_FLAG, ~(o1 \/ o2))
        overflow == /\ BitAnd(BitXor(accumulator, result), 128) # 0
                    /\ BitAnd(BitXor(accumulator, value), 128) # 0
        c2 == set_flag(c1, OVERFLOW_FLAG, overflow)
        c3 == [c2 EXCEPT !.register_a = result]
    IN page_cross_cycle(set_zero_and_negative_flags(c3, result), instr)

\* CPU::lda
lda(c, instr) ==
    page_cross_cycle(
        [set_zero_and_negative_flags(c, instr.value)
            EXCEPT !.register_a = instr.value], instr)

\* CPU::ldx, CPU::ldy
ldx(c, instr) ==
    page_cross_cycle(
        [set_zero_and_negative_flags(c, instr.value)
            EXCEPT !.register_x = instr.value], instr)

ldy(c, instr) ==
    page_cross_cycle(
        [set_zero_and_negative_flags(c, instr.value)
            EXCEPT !.register_y = instr.value], instr)

\* CPU::and, CPU::eor, CPU::ora
and(c, instr) ==
    LET result == BitAnd(c.register_a, instr.value)
    IN page_cross_cycle(
           set_zero_and_negative_flags([c EXCEPT !.register_a = result], result),
           instr)

eor(c, instr) ==
    LET result == BitXor(c.register_a, instr.value)
    IN page_cross_cycle(
           set_zero_and_negative_flags([c EXCEPT !.register_a = result], result),
           instr)

ora(c, instr) ==
    LET result == BitOr(c.register_a, instr.value)
    IN page_cross_cycle(
           set_zero_and_negative_flags([c EXCEPT !.register_a = result], result),
           instr)

\* CPU::las, CPU::lax (unofficial)
las(c, instr) ==
    LET result == BitAnd(c.stack_pointer, instr.value)
    IN page_cross_cycle(
           set_zero_and_negative_flags(
               [c EXCEPT !.register_a = result, !.register_x = result,
                         !.stack_pointer = result], result),
           instr)

lax(c, instr) ==
    page_cross_cycle(
        set_zero_and_negative_flags(
            [c EXCEPT !.register_a = instr.value, !.register_x = instr.value],
            instr.value),
        instr)

\* CPU::asl on memory: the shifted byte is stored, Carry, Zero and Negative
\* are set from it
asl(c, instr) ==
    LET result == U8(instr.value * 2)
    IN set_zero_and_negative_flags(
           set_flag(c, CARRY_FLAG, BitAnd(instr.value, 128) # 0), result)

\* CPU::cmp (cmp_register with register_a)
cmp(c, instr) ==
    LET reg == c.register_a
        value == instr.value
        result == U8(reg - value + 256)
        c1 == set_flag(c, CARRY_FLAG, reg >= value)
        c2 == set_flag(c1, ZERO_FLAG, reg = value)
        c3 == set_flag(c2, NEGATIVE_FLAG, BitAnd(result, 128) # 0)
    IN page_cross_cycle(c3, instr)

\* CPU::nop
nop(c, instr) == page_cross_cycle(c, instr)

\* sta charging a page crossing as the reading instructions do
sta_PageCrossCycle(c, instr) == page_cross_cycle(c, instr)

\* CPU::sta (the store lands outside the stack page)
sta(c, instr) == c

\* CPU::pha, CPU::php, CPU::pla, CPU::plp
pha(c) == push_stack(c, c.register_a)

php(c) == push_stack(c, BitOr(c.processor_status, BREAK_FLAG))

pla(c) ==
    LET r == pop_stack(c)
    IN set_zero_and_negative_flags([r.core EXCEPT !.register_a = r.ret], r.ret)

plp(c) ==
    LET r == pop_stack(c) IN set_flags(r.core, r.ret)

\* CPU::jmp, CPU::jsr
jmp(c, instr) ==
    [c EXCEPT !.program_counter = get_operand_address(c, instr).addr]

jsr(c, instr) ==
    [push_stack16(c, U16(c.program_counter + 2 - 1))
        EXCEPT !.program_counter = get_operand_address(c, instr).addr]

\* CPU::rti, CPU::rts
rti(c) ==
    LET r == pop_stack(c)
        t == pop_stack16(set_flags(r.core, r.ret))
    IN [t.core EXCEPT !.program_counter = t.ret]

rts(c) ==
    LET t == pop_stack16(c)
    IN [t.core EXCEPT !.program_counter = U16(t.ret + 1)]

\* CPU::brk
brk(c) ==
    LET c1 == push_stack16(c, U16(c.program_counter + 1))
        c2 == push_stack(c1, BitOr(c.processor_status, 16))
    IN [set_flag(c2, IRQ_FLAG, TRUE) EXCEPT !.program_counter = c.irq_vector]

\* CPU::branch
branch(c, instr) ==
    LET jump_addr == U16(U16(c.program_counter + 1) + SignExtend(instr.operand))
        next_instruction == U16(c.program_counter + (instr.len - 1))
    IN [c EXCEPT !.cycles = @ + 1
                     + (IF page_cross(next_instruction, jump_addr) THEN 1 ELSE 0),
                 !.program_counter = jump_addr]

\* the condition of bcc, bcs, beq, bne
branch_taken(c, instr) ==
    CASE instr.mnemonic = "BCC" -> ~get_flag(c, CARRY_FLAG)
      [] instr.mnemonic = "BCS" -> get_flag(c, CARRY_FLAG)
      [] instr.mnemonic = "BEQ" -> get_flag(c, ZERO_FLAG)
      [] instr.mnemonic = "BNE" -> ~get_flag(c, ZERO_FLAG)
      [] OTHER -> FALSE

\* CPU::interrupt_nmi
interrupt_nmi(c) ==
    LET c1 == php(push_stack16(c, c.program_counter))
        c2 == [c1 EXCEPT !.cycles = @ + NMI_CYCLES]
    IN [set_flag(c2, IRQ_FLAG, TRUE) EXCEPT !.program_counter = c.nmi_vector]

\* the match on opcode.mnemonic in CPU::run
dispatch(c, instr) ==
    CASE instr.mnemonic = "ADC" -> adc(c, instr)
      [] instr.mnemonic = "SBC" -> sbc(c, instr)
      [] instr.mnemonic = "LDA" -> lda(c, instr)
      [] instr.mnemonic = "CMP" -> cmp(c, instr)
      [] instr.mnemonic = "LDX" -> ldx(c, instr)
      [] instr.mnemonic = "LDY" -> ldy(c, instr)
      [] instr.mnemonic = "AND" -> and(c, instr)
      [] instr.mnemonic = "EOR" -> eor(c, instr)
      [] instr.mnemonic = "ORA" -> ora(c, instr)
      [] instr.mnemonic = "LAS" -> las(c, instr)
      [] instr.mnemonic = "LAX" -> lax(c, instr)
      [] instr.mnemonic = "ASL" -> asl(c, instr)
      [] instr.mnemonic = "NOP" -> nop(c, instr)
      [] instr.mnemonic = "STA" -> sta(c, instr)
      [] instr.mnemonic = "PHA" -> pha(c)
      [] instr.mnemonic = "PHP" -> php(c)
      [] instr.mnemonic = "PLA" -> pla(c)
      [] instr.mnemonic = "PLP" -> plp(c)
      [] instr.mnemonic = "JMP" -> jmp(c, instr)
      [] instr.mnemonic = "JSR" -> jsr(c, instr)
      [] instr.mnemonic = "RTI" -> rti(c)
      [] instr.mnemonic = "RTS" -> rts(c)
      [] instr.mnemonic = "BRK" -> brk(c)
      [] instr.mnemonic \in {"BCC", "BCS", "BEQ", "BNE"} ->
            IF branch_taken(c, instr) THEN branch(c, instr) ELSE c

\* CPU::run with the registers: the NMI entry if one is pending, the fetch,
\* the instruction, the len - 1 advance when PC was left alone, the table
\* cycles.  entry is the core as interrupt_nmi left it, executed the core
\* as the instruction left it.
run(c, nmi, instr) ==
    LET entry == IF nmi THEN interrupt_nmi(c) ELSE c
        start_cycles == entry.cycles
        fetched == [entry EXCEPT !.program_counter = U16(@ + 1)]
        program_counter_state == fetched.program_counter
        executed == dispatch(fetched, instr)
        advanced == IF program_counter_state = executed.program_counter
                    THEN [executed EXCEPT !.program_counter =
                                              U16(@ + (instr.len - 1))]
                    ELSE executed
        done == [advanced EXCEPT !.cycles = @ + instr.cycles]
    IN [core |-> done, entry |-> entry, fetched |-> fetched,
        executed |-> executed,
        ret |-> (done.cycles - start_cycles) % 256]

(***************************************************************************)
(* The memories behind the PPU and the bus: nametable RAM, palette, OAM,   *)
(* the cartridge's pattern memory and program ROM, the CPU RAM, and the    *)
(* PPU's address registers.  Arrays are kept sparse: a cell that was never *)
(* written reads as the array's initial value.                             *)
(***************************************************************************)
\* the initial value of PPU::oam_data, 0xFF
OAM_RESET == 255

\* array[i]
Cell(array, i, initial) == IF i \in DOMAIN array THEN array[i] ELSE initial

\* array[i] = data
Store(array, i, data) ==
    [a \in (DOMAIN array) \cup {i} |-> IF a = i THEN data ELSE array[a]]

\* PPU::new and Bus::new on these fields, with the cartridge loaded
VMem_new ==
    [ mirroring |-> "Horizontal",
      vram |-> <<>>, palette_table |-> <<>>, chr_rom |-> <<>>,
      oam_data |-> <<>>, oam_addr |-> 0,
      v |-> 0, t |-> 0, fine_x |-> 0, vram_buffer |-> 0,
      cpu_vram |-> <<>>, prg_rom |-> <<>>,
      joypad2 |-> [ strobe |-> FALSE, button_index |-> 0, button_status |-> 0 ] ]

(***************************************************************************)
(* PPU::tick: one dot.  Returns the new PPU and whether a frame finished.  *)
(***************************************************************************)
\* the arms with the vblank arm taken on every vblank scanline (241..260),
\* the inner test of scanline 241 left out
TickArms_EveryVblankLine(p) ==
    IF p.cycle = 0 THEN p
    ELSE IF p.scanline = PRE_RENDER /\ p.cycle = 1
        THEN [p EXCEPT !.vblank = FALSE, !.nmi_interrupt = FALSE,
                       !.suppress_vbl = FALSE]
    ELSE IF p.scanline = PRE_RENDER /\ p.cycle = 339
        THEN IF rendering_enabled(p.mask) /\ p.odd_frame
             THEN [p EXCEPT !.cycle = 340]
             ELSE p
    ELSE IF p.scanline >= VBLANK_SCANLINE /\ p.scanline < PRE_RENDER
            /\ p.cycle = 1
        THEN IF ~p.suppress_vbl
             THEN [p EXCEPT !.vblank = TRUE,
                            !.nmi_interrupt =
                                IF generate_vblank_nmi(p.ctrl) THEN TRUE ELSE @]
             ELSE p
    ELSE p

\* the arms with the pre-render dot skipped on every frame with rendering
\* enabled, odd or even
TickArms_SkipEveryFrame(p) ==
    IF p.cycle = 0 THEN p
    ELSE IF p.scanline = PRE_RENDER /\ p.cycle = 1
        THEN [p EXCEPT !.vblank = FALSE, !.nmi_interrupt = FALSE,
                       !.suppress_vbl = FALSE]
    ELSE IF p.scanline = PRE_RENDER /\ p.cycle = 339
        THEN IF rendering_enabled(p.mask)
             THEN [p EXCEPT !.cycle = 340]
             ELSE p
    ELSE IF p.scanline = VBLANK_SCANLINE /\ p.cycle = 1
        THEN IF ~p.suppress_vbl
             THEN [p EXCEPT !.vblank = TRUE,
                            !.nmi_interrupt =
                                IF generate_vblank_nmi(p.ctrl) THEN TRUE ELSE @]
             ELSE p
    ELSE p

\* the match on (scanline_step, self.cycle), restricted to the arms that
\* touch the counters, the status flags and the NMI latch
TickArms(p) ==
    IF p.cycle = 0 THEN p
    ELSE IF p.scanline = PRE_RENDER /\ p.cycle = 1
        THEN [p EXCEPT !.vblank = FALSE, !.nmi_interrupt = FALSE,
                       !.suppress_vbl = FALSE]
    ELSE IF p.scanline = PRE_RENDER /\ p.cycle = 339
        THEN IF rendering_enabled(p.mask) /\ p.odd_frame
             THEN [p EXCEPT !.cycle = 340]
             ELSE p
    ELSE IF p.scanline = VBLANK_SCANLINE /\ p.cycle = 1
        THEN IF ~p.suppress_vbl
             THEN [p EXCEPT !.vblank = TRUE,
                            !.nmi_interrupt =
                                IF generate_vblank_nmi(p.ctrl) THEN TRUE ELSE @]
             ELSE p
    ELSE p

\* the counter update with the scanline wrapped one line late
TickAdvance_WrapLate(p) ==
    LET c == p.cycle + 1 IN
    IF c > LAST_CYCLE
    THEN IF p.scanline > LAST_SCANLINE
         THEN [ppu |-> [p EXCEPT !.cycle = 0, !.scanline = 0,
                                 !.frame_count = @ + 1,
                                 !.odd_frame = ~@],
               frame |-> TRUE]
         ELSE [ppu |-> [p EXCEPT !.cycle = 0, !.scanline = @ + 1],
               frame |-> FALSE]
    ELSE [ppu |-> [p EXCEPT !.cycle = c], frame |-> FALSE]

\* the counter update that ends PPU::tick
TickAdvance(p) ==
    LET c == p.cycle + 1 IN
    IF c > LAST_CYCLE
    THEN IF p.scanline + 1 > LAST_SCANLINE
         THEN [ppu |-> [p EXCEPT !.cycle = 0, !.scanline = 0,
                                 !.frame_count = @ + 1,
                                 !.odd_frame = ~@],
               frame |-> TRUE]
         ELSE [ppu |-> [p EXCEPT !.cycle = 0, !.scanline = @ + 1],
               frame |-> FALSE]
    ELSE [ppu |-> [p EXCEPT !.cycle = c], frame |-> FALSE]

PPU_tick(p) == TickAdvance(TickArms(p))

(***************************************************************************)
(* PPU register ports seen from the CPU (PPU::cpu_read, PPU::cpu_write),   *)
(* for the ports that touch the vblank / NMI state.                        *)
(***************************************************************************)
\* StatusRegister::snapshot: the status byte (bit 7 is vblank)
status_snapshot(p) == IF p.vblank THEN 128 ELSE 0

\* a PPUSTATUS read that leaves the write toggle alone
PPU_cpu_read_status_KeepW(p) ==
    LET data == BitOr(BitAnd(status_snapshot(p), 224), BitAnd(p.data_bus, 31))
    IN [ppu |-> [p EXCEPT !.vblank = FALSE,
                          !.suppress_vbl =
                              IF p.scanline = VBLANK_SCANLINE /\ p.cycle = 0
                              THEN TRUE ELSE @,
                          !.data_bus = BitOr(@, BitAnd(data, 224))],
        ret |-> data]

\* PPU::cpu_read(PPUSTATUS): the new PPU and the byte read
PPU_cpu_read_status(p) ==
    LET data == BitOr(BitAnd(status_snapshot(p), 224), BitAnd(p.data_bus, 31))
    IN [ppu |-> [p EXCEPT !.vblank = FALSE,
                          !.w = FALSE,
                          !.suppress_vbl =
                              IF p.scanline = VBLANK_SCANLINE /\ p.cycle = 0
                              THEN TRUE ELSE @,
                          !.data_bus = BitOr(@, BitAnd(data, 224))],
        ret |-> data]

\* a PPUCTRL write that latches whenever NMI-enable is set after it
PPU_cpu_write_ctrl_NoEdge(p, data) ==
    [p EXCEPT !.data_bus = data,
              !.ctrl = data,
              !.nmi_interrupt =
                  IF generate_vblank_nmi(data) /\ p.vblank THEN TRUE ELSE @]

\* PPU::cpu_write(PPUCTRL, data)
PPU_cpu_write_ctrl(p, data) ==
    LET before_nmi_status == generate_vblank_nmi(p.ctrl)
        updated_nmi_status == generate_vblank_nmi(data)
    IN [p EXCEPT !.data_bus = data,
                 !.ctrl = data,
                 !.nmi_interrupt =
                     IF ~before_nmi_status /\ updated_nmi_status /\ p.vblank
                     THEN TRUE ELSE @]

\* PPU::cpu_write(PPUMASK, data)
PPU_cpu_write_mask(p, data) == [p EXCEPT !.data_bus = data, !.mask = data]

\* PPU::poll_nmi_interrupt: Option::take
PPU_poll_nmi_interrupt(p) ==
    [ppu |-> [p EXCEPT !.nmi_interrupt = FALSE], nmi |-> p.nmi_interrupt]

\* mirror_nametable folding the tables as vertical mirroring does, whatever
\* the cartridge says
mirror_nametable_AlwaysVertical(m, addr) ==
    LET mirrored_vram == addr % 4096
    IN IF mirrored_vram \div 1024 \in {2, 3}
       THEN mirrored_vram - 2048 ELSE mirrored_vram

\* PPU::mirror_palette without the aliasing of 0x10/0x14/0x18/0x1C
mirror_palette_NoAlias(address) == address % 32

(***************************************************************************)
(* PPU memory and the remaining register ports.  p is the PPU record, m    *)
(* the memories.                                                           *)
(***************************************************************************)
\* PPU::mirror_nametable: the index into the 2 KiB of nametable RAM
mirror_nametable(m, addr) ==
    LET mirrored_vram == addr % 4096
        nametable_index == mirrored_vram \div 1024
    IN CASE m.mirroring = "Vertical" /\ nametable_index \in {2, 3} ->
                mirrored_vram - 2048
         [] m.mirroring = "Horizontal" /\ nametable_index \in {1, 2} ->
                mirrored_vram - 1024
         [] m.mirroring = "Horizontal" /\ nametable_index = 3 ->
                mirrored_vram - 2048
         [] OTHER -> mirrored_vram

\* PPU::mirror_palette
mirror_palette(address) ==
    LET a == address % 32
    IN IF a \in {16, 20, 24, 28} THEN a - 16 ELSE a

\* PPU::mem_read (the pattern tables are the NROM mapper's chr_rom)
PPU_mem_read(m, address) ==
    CASE address <= 8191 -> Cell(m.chr_rom, address % 8192, 0)
      [] address >= 8192 /\ address <= 16127 ->
            Cell(m.vram, mirror_nametable(m, address), 0)
      [] address >= 16128 /\ address <= 16383 ->
            Cell(m.palette_table, mirror_palette(address), 0)

\* PPU::mem_write (0x3000..=0x3EFF is unimplemented!() and is not written)
PPU_mem_write(m, address, data) ==
    CASE address <= 8191 ->
            [m EXCEPT !.chr_rom = Store(@, address % 8192, data)]
      [] address >= 8192 /\ address <= 12287 ->
            [m EXCEPT !.vram = Store(@, mirror_nametable(m, address), data)]
      [] address >= 16128 /\ address <= 16383 ->
            [m EXCEPT !.palette_table = Store(@, mirror_palette(address), data)]

\* ControlRegister::vram_addr_increment: bit 2 of PPUCTRL, 32 or 1
vram_addr_increment(ctrl) == IF TestBit(ctrl, 2) THEN 32 ELSE 1

\* PPU::increment_vram_addr
increment_vram_addr(p, m) ==
    [m EXCEPT !.v = (@ + vram_addr_increment(p.ctrl)) % 65536]

\* PPU::increment_x
increment_x(p, m) ==
    IF show_background(p.mask)
    THEN IF m.v % 32 = 31
         THEN LET cleared == m.v - 31
              IN [m EXCEPT !.v = IF TestBit(cleared, 10)
                                 THEN cleared - 1024 ELSE cleared + 1024]
         ELSE [m EXCEPT !.v = @ + 1]
    ELSE m

\* a vertical increment that wraps coarse Y at 29 without switching the
\* nametable and switches it on the wrap at 31
increment_y_WrapAt31(p, m) ==
    IF show_background(p.mask)
    THEN IF (m.v \div 4096) % 8 # 7
         THEN [m EXCEPT !.v = @ + 4096]
         ELSE LET v0 == m.v - 28672
                  y == (v0 \div 32) % 32
                  v1 == IF y = 31
                        THEN (IF TestBit(v0, 11) THEN v0 - 2048 ELSE v0 + 2048)
                        ELSE v0
                  y1 == IF y = 29 \/ y = 31 THEN 0 ELSE y + 1
              IN [m EXCEPT !.v = v1 - (y * 32) + (y1 * 32)]
    ELSE m

\* PPU::increment_y
increment_y(p, m) ==
    IF show_background(p.mask)
    THEN IF (m.v \div 4096) % 8 # 7
         THEN [m EXCEPT !.v = @ + 4096]
         ELSE LET v0 == m.v - 28672
                  y == (v0 \div 32) % 32
                  v1 == IF y = 29
                        THEN (IF TestBit(v0, 11) THEN v0 - 2048 ELSE v0 + 2048)
                        ELSE v0
                  y1 == IF y = 29 \/ y = 31 THEN 0 ELSE y + 1
              IN [m EXCEPT !.v = v1 - (y * 32) + (y1 * 32)]
    ELSE m

\* x & 0x041F: coarse X and the horizontal nametable bit
HorizontalBits(x) == (x % 32) + (IF TestBit(x, 10) THEN 1024 ELSE 0)

\* x & 0x7BE0: fine Y, coarse Y and the vertical nametable bit
VerticalBits(x) == (x % 32768) - HorizontalBits(x)

\* PPU::transfer_x
transfer_x(p, m) ==
    IF show_background(p.mask)
    THEN [m EXCEPT !.v = VerticalBits(m.v) + HorizontalBits(m.t)]
    ELSE m

\* PPU::transfer_y
transfer_y(p, m) ==
    IF show_background(p.mask)
    THEN [m EXCEPT !.v = HorizontalBits(m.v) + VerticalBits(m.t)]
    ELSE m

\* PPU::tick on the scroll registers: the arms of the match on
\* (scanline_step, self.cycle) that change v, at the dot the PPU is on
TickScroll(p, m) ==
    LET drawn == p.scanline = PRE_RENDER \/ p.scanline < 240
        x == IF p.cycle % 8 = 0 THEN increment_x(p, m) ELSE m
    IN IF ~drawn \/ p.cycle = 0 THEN m
       ELSE IF p.cycle <= 256
           THEN IF p.cycle = 256 THEN increment_y(p, x) ELSE x
       ELSE IF p.cycle = 257 THEN transfer_x(p, m)
       ELSE IF p.scanline = PRE_RENDER /\ p.cycle >= 280 /\ p.cycle <= 304
           THEN transfer_y(p, m)
       ELSE IF p.cycle >= 321 /\ p.cycle <= 336 THEN x
       ELSE m

\* one pass of the loop of Bus::tick on the PPU and its scroll registers;
\* once a frame has completed the loop has broken
ScrollDot(st) ==
    IF st.frame THEN st
    ELSE CHOOSE out \in
            { [ppu |-> r.ppu, vmem |-> TickScroll(st.ppu, st.vmem),
               frame |-> r.frame] : r \in {PPU_tick(st.ppu)} } : TRUE

\* for _ in 0..n { if self.ppu.tick() { break } }
RECURSIVE ScrollLoop(_, _)
ScrollLoop(st, n) ==
    IF n = 0 THEN st
    ELSE IF n = 1 THEN ScrollDot(st)
    ELSE CHOOSE out \in
            { ScrollLoop(s1, n - (n \div 2)) :
                s1 \in {ScrollLoop(st, n \div 2)} } : TRUE

\* PPU::cpu_read: the new PPU, the new memories and the byte read
PPU_cpu_read(p, m, address) ==
    LET reg == 8192 + (address % 8)
    IN CASE reg \in {PPUCTRL, PPUMASK, OAMADDR, PPUSCROLL, PPUADDR} ->
               [ppu |-> p, vmem |-> m, ret |-> p.data_bus]
         [] reg = PPUSTATUS ->
               [ppu |-> PPU_cpu_read_status(p).ppu, vmem |-> m,
                ret |-> PPU_cpu_read_status(p).ret]
         [] reg = OAMDATA ->
               [ppu |-> p, vmem |-> m,
                ret |-> Cell(m.oam_data, m.oam_addr, OAM_RESET)]
         [] reg = PPUDATA ->
               LET a == m.v % 16384
                   m1 == increment_vram_addr(p, m)
               IN IF a >= 16128
                  THEN [ppu |-> p,
                        vmem |-> [m1 EXCEPT !.vram_buffer =
                                     Cell(m.vram, mirror_nametable(m, a), 0)],
                        ret |-> PPU_mem_read(m, a)]
                  ELSE [ppu |-> p,
                        vmem |-> [m1 EXCEPT !.vram_buffer = PPU_mem_read(m, a)],
                        ret |-> m.vram_buffer]

\* PPU::cpu_write: the new PPU and the new memories
PPU_cpu_write(p, m, address, data) ==
    LET reg == 8192 + (address % 8)
        latched == [p EXCEPT !.data_bus = data]
    IN CASE reg = PPUCTRL ->
               [ppu |-> PPU_cpu_write_ctrl(p, data),
                vmem |-> [m EXCEPT !.t = (@ - ((@ \div 1024) % 4) * 1024)
                                          + (data % 4) * 1024]]
         [] reg = PPUMASK ->
               [ppu |-> PPU_cpu_write_mask(p, data), vmem |-> m]
         [] reg = PPUSTATUS ->
               [ppu |-> latched, vmem |-> m]
         [] reg = OAMADDR ->
               [ppu |-> latched, vmem |-> [m EXCEPT !.oam_addr = data]]
         [] reg = OAMDATA ->
               [ppu |-> latched,
                vmem |-> [m EXCEPT !.oam_data = Store(@, m.oam_addr, data),
                                   !.oam_addr = (@ + 1) % 256]]
         [] reg = PPUSCROLL ->
               IF ~p.w
               THEN [ppu |-> [latched EXCEPT !.w = TRUE],
                     vmem |-> [m EXCEPT !.t = (((@ \div 32) * 32) % 32768)
                                               + (data \div 8),
                                        !.fine_x = data % 8]]
               ELSE [ppu |-> [latched EXCEPT !.w = FALSE],
                     vmem |-> [m EXCEPT !.t =
                                  (((@ \div 1024) % 4) * 1024) + (@ % 32)
                                  + (data % 8) * 4096
                                  + (data \div 8) * 32]]
         [] reg = PPUADDR ->
               IF ~p.w
               THEN [ppu |-> [latched EXCEPT !.w = TRUE],
                     vmem |-> [m EXCEPT !.t = (@ % 256) + (data % 64) * 256]]
               ELSE [ppu |-> [latched EXCEPT !.w = FALSE],
                     vmem |-> [m EXCEPT !.t = ((@ \div 256) * 256) + data,
                                        !.v = ((m.t \div 256) * 256) + data]]
         [] reg = PPUDATA ->
               LET m1 == PPU_mem_write(m, m.v % 16384, data)
               IN [ppu |-> latched,
                   vmem |-> IF show_background(p.mask)
                               /\ (p.scanline < 240 \/ p.scanline = PRE_RENDER)
                            THEN increment_y(p, increment_x(p, m1))
                            ELSE increment_vram_addr(p, m1)]

(***************************************************************************)
(* Bus::tick(cycles): up to cycles * 3 PPU dots, stopping at the first dot *)
(* that finishes a frame.  Besides the new PPU and the frame flag the      *)
(* result counts the dots ticked and the NMI latch events seen (the dots   *)
(* on which nmi_interrupt went from None to Some, and how many of those    *)
(* were at scanline 241, dot 1).                                           *)
(***************************************************************************)
\* one pass of the loop body on the tick result r, then the rest of the loop
RECURSIVE BusLoop(_, _)
BusLoopBody(p, r, k) ==
    LET edge == r.ppu.nmi_interrupt /\ ~p.nmi_interrupt
        here == edge /\ p.scanline = VBLANK_SCANLINE /\ p.cycle = 1
    IN  IF r.frame
        THEN [ppu |-> r.ppu, frame |-> TRUE, dots |-> 1,
              latches |-> IF edge THEN 1 ELSE 0,
              at_vbl |-> IF here THEN 1 ELSE 0]
        ELSE [BusLoop(r.ppu, k - 1) EXCEPT
                  !.dots = @ + 1,
                  !.latches = @ + (IF edge THEN 1 ELSE 0),
                  !.at_vbl = @ + (IF here THEN 1 ELSE 0)]

\* for _ in 0..k { if self.ppu.tick() { frame_complete = true; break; } }
\* (r ranges over a singleton: the tick's result, taken once)
BusLoop(p, k) ==
    IF k = 0
    THEN [ppu |-> p, frame |-> FALSE, dots |-> 0, latches |-> 0, at_vbl |-> 0]
    ELSE CHOOSE out \in { BusLoopBody(p, r, k) : r \in {PPU_tick(p)} } : TRUE

\* a bus tick that reports the frame when the PPU enters vblank
Bus_tick_FrameAtVblank(p, cycles) ==
    CHOOSE out \in
        { [b EXCEPT !.frame = (b.ppu.scanline = VBLANK_SCANLINE
                               /\ p.scanline # VBLANK_SCANLINE)] :
            b \in {BusLoop(p, (cycles * 3) % 256)} } : TRUE

\* Bus::tick; cycles is a u8 and so is cycles * 3
Bus_tick(p, cycles) == BusLoop(p, (cycles * 3) % 256)

(***************************************************************************)
(* CPU::run: one step.  An instruction is abstracted to its table cycle    *)
(* count and its access to the PPU ports.                                  *)
(***************************************************************************)
\* NOP (0xea), LDA absolute (0xad) from PPUSTATUS, STA absolute (0x8d) to
\* PPUCTRL with NMI-enable clear or set
Instructions ==
    { [mnemonic |-> "NOP", addr |-> 0, data |-> 0, cycles |-> 2],
      [mnemonic |-> "LDA", addr |-> PPUSTATUS, data |-> 0, cycles |-> 4] }
    \cup { [mnemonic |-> "STA", addr |-> PPUCTRL, data |-> d, cycles |-> 4] :
             d \in {0, 128} }

\* the instruction's bus access
Execute(p, instr) ==
    IF instr.mnemonic = "LDA" /\ instr.addr = PPUSTATUS
        THEN PPU_cpu_read_status(p).ppu
    ELSE IF instr.mnemonic = "STA" /\ instr.addr = PPUCTRL
        THEN PPU_cpu_write_ctrl(p, instr.data)
    ELSE p

\* CPU::run on cycle counter c: poll the NMI, enter it (interrupt_nmi adds
\* 7 cycles), take start_cycles, execute, add opcode.cycles, return the
\* difference as u8
CPU_run(c, p, instr) ==
    LET polled == PPU_poll_nmi_interrupt(p)
        c1 == IF polled.nmi THEN c + NMI_CYCLES ELSE c
        start_cycles == c1
        p2 == Execute(polled.ppu, instr)
        c2 == c1 + instr.cycles
    IN [cycles |-> c2, ppu |-> p2, nmi |-> polled.nmi,
        ret |-> (c2 - start_cycles) % 256]

\* NES::emulate_frame: one CPU step, then the bus ticked by its cycles
NES_emulate_frame(c, p, instr) ==
    CHOOSE out \in UNION
        { { [cpu |-> [cycles |-> r.cycles], ppu |-> b.ppu, frame |-> b.frame,
             run |-> r, tick |-> b] :
              b \in {Bus_tick(r.ppu, r.ret)} } :
            r \in {CPU_run(c, p, instr)} } : TRUE

(***************************************************************************)
(* Joypad latch (joypad.rs).  button_status is the bitflags byte: bit 0 is *)
(* A, then B, Select, Start, Up, Down, Left, bit 7 is Right.               *)
(***************************************************************************)
Buttons == 0..7

\* a write that resets the index whenever the new strobe is low
Joypad_write_ResetOnLow(j, data) ==
    LET new_strobe == (data % 2 = 1) IN
    [j EXCEPT !.button_index = IF ~new_strobe THEN 0 ELSE @,
              !.strobe = new_strobe]

\* Joypad::write
Joypad_write(j, data) ==
    LET new_strobe == (data % 2 = 1) IN
    [j EXCEPT !.button_index = IF j.strobe /\ ~new_strobe THEN 0 ELSE @,
              !.strobe = new_strobe]

\* a read that reports the button after the one the index selects
Joypad_read_OffByOne(j) ==
    IF j.button_index > 7
    THEN [joypad |-> j, ret |-> 1]
    ELSE LET i == (j.button_index + 1) % 8
             response == (j.button_status \div Pow2(i)) % 2
         IN [joypad |-> IF ~j.strobe /\ j.button_index <= 7
                          THEN [j EXCEPT !.button_index = @ + 1]
                          ELSE j,
             ret |-> response]

\* Joypad::read: the new latch and the byte returned
Joypad_read(j) ==
    IF j.button_index > 7
    THEN [joypad |-> j, ret |-> 1]
    ELSE LET mask == Pow2(j.button_index)
             \* (bits & (1 << index)) >> index
             response == (IF TestBit(j.button_status, j.button_index)
                          THEN mask ELSE 0) \div mask
         IN [joypad |-> IF ~j.strobe /\ j.button_index <= 7
                          THEN [j EXCEPT !.button_index = @ + 1]
                          ELSE j,
             ret |-> response]

\* Joypad::set_button_pressed_status (bitflags set: insert or remove)
Joypad_set_button_pressed_status(j, button, pressed) ==
    [j EXCEPT !.button_status = IF pressed THEN SetBit(@, button)
                                ELSE ClearBit(@, button)]

(***************************************************************************)
(* The joypad on its own: writes to 0x4016, reads of 0x4016 and button     *)
(* updates from the frontend, in any order.                                *)
(***************************************************************************)
\* bytes written to the strobe port
StrobeBytes == {0, 1, 2, 255}

\* the observation kept of a joypad operation
\*   op, ret          the operation and the byte a read returned
\*   pre_index, pre_strobe   the latch before the operation
\*   fell             a strobe 1->0 transition has happened
\*   reads            reads made since that transition (at most MaxReads)
\*   raised_early     the strobe was raised again before 8 reads were made
JoypadObs0 ==
    [ op |-> "none", ret |-> 0, pre_index |-> 0, pre_strobe |-> FALSE,
      fell |-> FALSE, reads |-> 0, raised_early |-> FALSE ]

InitJoypad ==
    /\ ppu = PPU_new
    /\ joypad1 = Joypad_new
    /\ cpu = CPU_new
    /\ status = "Stopped"
    /\ desk = Desk_new
    /\ core = Core_new
    /\ vmem = VMem_new
    /\ obs = JoypadObs0

JoypadWrite(data) ==
    LET j == Joypad_write(joypad1, data)
        falls == joypad1.strobe /\ ~j.strobe
        rises == ~joypad1.strobe /\ j.strobe
    IN
    /\ joypad1' = j
    /\ obs' = [obs EXCEPT !.op = "write", !.ret = 0,
                          !.pre_index = joypad1.button_index,
                          !.pre_strobe = joypad1.strobe,
                          !.fell = @ \/ falls,
                          !.reads = IF falls THEN 0 ELSE @,
                          !.raised_early =
                              IF falls THEN FALSE
                              ELSE @ \/ (rises /\ obs.fell /\ obs.reads < 8)]
    /\ UNCHANGED <<ppu, cpu, status, desk, core, vmem>>

JoypadRead ==
    LET r == Joypad_read(joypad1) IN
    /\ joypad1' = r.joypad
    /\ obs' = [obs EXCEPT !.op = "read", !.ret = r.ret,
                          !.pre_index = joypad1.button_index,
                          !.pre_strobe = joypad1.strobe,
                          !.reads = IF @ < MaxReads THEN @ + 1 ELSE @]
    /\ UNCHANGED <<ppu, cpu, status, desk, core, vmem>>

JoypadPress(button, pressed) ==
    /\ joypad1' = Joypad_set_button_pressed_status(joypad1, button, pressed)
    /\ obs' = [obs EXCEPT !.op = "press", !.ret = 0,
                          !.pre_index = joypad1.button_index,
                          !.pre_strobe = joypad1.strobe]
    /\ UNCHANGED <<ppu, cpu, status, desk, core, vmem>>

NextJoypad ==
    \/ \E data \in StrobeBytes : JoypadWrite(data)
    \/ JoypadRead
    \/ \E button \in Buttons, pressed \in BOOLEAN : JoypadPress(button, pressed)

SpecJoypad == InitJoypad /\ [][NextJoypad]_vars

\* the current state of button number i (0 is A, 7 is Right)
ButtonState(i) == (joypad1.button_status \div Pow2(i)) % 2

(* C7 as stated: after a strobe 1->0 transition the k-th read returns the  *)
(* current state of the k-th button (k = 1..8) and the ninth and later     *)
(* reads return 1, whatever writes come between the reads.                 *)
C7_KthReadAfterFall ==
    (obs.op = "read" /\ obs.fell) =>
        IF obs.reads <= 8 THEN obs.ret = ButtonState(obs.reads - 1)
        ELSE obs.ret = 1

(* C7 amended: the same, provided the strobe was not raised again before   *)
(* eight reads had been made since the transition.                         *)
C7_KthReadWhileLow ==
    (obs.op = "read" /\ obs.fell /\ ~obs.raised_early) =>
        IF obs.reads <= 8 THEN obs.ret = ButtonState(obs.reads - 1)
        ELSE obs.ret = 1

\* a fifth read after the transition reports Up pressed, and a ninth reports 1
C7_Witness ==
    /\ obs.op = "read" /\ obs.fell /\ ~obs.raised_early
    /\ \/ obs.reads = 5 /\ obs.ret = 1 /\ joypad1.button_status = 16
       \/ obs.reads = 9 /\ obs.ret = 1 /\ joypad1.button_status = 0

(* C8: while the strobe is high every read returns the current state of    *)
(* the A button.                                                           *)
C8_StrobeHighReadsA ==
    (obs.op = "read" /\ obs.pre_strobe) => obs.ret = ButtonState(0)

(* C9: button_index changes only by a write taking the strobe from 1 to 0  *)
(* (reset to 0) and by a read with the strobe low and the index at most 7  *)
(* (plus one); every other operation leaves it unchanged.                  *)
C9_IndexFrame ==
    IF obs.op = "write" /\ obs.pre_strobe /\ ~joypad1.strobe
        THEN joypad1.button_index = 0
    ELSE IF obs.op = "read" /\ ~obs.pre_strobe /\ obs.pre_index <= 7
        THEN joypad1.button_index = obs.pre_index + 1
    ELSE joypad1.button_index = obs.pre_index

\* a write of 0 with the strobe already low leaves a nonzero index alone
C9_Witness ==
    /\ obs.op = "write" /\ ~obs.pre_strobe /\ ~joypad1.strobe
    /\ obs.pre_index = 3 /\ joypad1.button_index = 3

(***************************************************************************)
(* The PPU on its own, dot by dot, with PPUMASK fixed from the start.      *)
(***************************************************************************)
\* PPUMASK values: rendering off, background, sprites, both
MaskValues == {0, 8, 16, 24}

\* the observation kept of a PPU or bus operation
\*   op, frame        the operation and whether it reported a finished frame
\*   from_*           the PPU position and frame parity before the operation
\*   cycles, ticked   Bus::tick's argument and the dots it ran
\*   dots             dots run since the frame began
\*   last_len, prev_len   dots of the last two finished frames (0: none yet)
PpuObs0 ==
    [ op |-> "none", frame |-> FALSE,
      from_scanline |-> 0, from_cycle |-> 0, from_odd |-> FALSE,
      from_frames |-> 0, cycles |-> 0, ticked |-> 0,
      dots |-> 0, last_len |-> 0, prev_len |-> 0 ]

InitDots ==
    /\ ppu \in {PPU_cpu_write_mask(PPU_new, m) : m \in MaskValues}
    /\ joypad1 = Joypad_new
    /\ cpu = CPU_new
    /\ status = "Stopped"
    /\ desk = Desk_new
    /\ core = Core_new
    /\ vmem = VMem_new
    /\ obs = PpuObs0

\* the observation after an operation that ran n dots from PPU state p
PpuObserve(op, p, cycles, n, frame) ==
    [ op |-> op, frame |-> frame,
      from_scanline |-> p.scanline, from_cycle |-> p.cycle,
      from_odd |-> p.odd_frame, from_frames |-> p.frame_count,
      cycles |-> cycles, ticked |-> n,
      dots |-> IF frame THEN 0 ELSE obs.dots + n,
      last_len |-> IF frame THEN obs.dots + n ELSE obs.last_len,
      prev_len |-> IF frame THEN obs.last_len ELSE obs.prev_len ]

\* PPU::tick
Tick ==
    /\ ppu.frame_count < MaxFrames
    /\ \E r \in {PPU_tick(ppu)} :
       /\ ppu' = r.ppu
       /\ obs' = PpuObserve("tick", ppu, 0, 1, r.frame)
    /\ UNCHANGED <<joypad1, cpu, status, desk, core, vmem>>

SpecDots == InitDots /\ [][Tick]_vars

(* C5: with background rendering enabled throughout, consecutive frames    *)
(* alternate between 89,342 and 89,341 dots (so 60 of each in 120 frames); *)
(* with rendering disabled every frame is 89,342 dots.                     *)
C5_FrameLengths ==
    /\ (show_background(ppu.mask) /\ obs.last_len # 0) =>
           obs.last_len \in {89341, 89342}
    /\ (show_background(ppu.mask) /\ obs.prev_len # 0) =>
           {obs.prev_len, obs.last_len} = {89341, 89342}
    /\ (~rendering_enabled(ppu.mask) /\ obs.last_len # 0) =>
           obs.last_len = 89342

\* with the background on, a long frame then a short one and a third begun
C5_Witness ==
    /\ show_background(ppu.mask)
    /\ obs.prev_len = 89341 /\ obs.last_len = 89342
    /\ ppu.frame_count = 3

(* C6: the dot counter stays in 0..340 and the scanline counter in 0..261; *)
(* a tick moves the position one dot forward (340 wraps to dot 0 of the    *)
(* next scanline, scanline 261 wraps to 0) except that on an odd frame     *)
(* with rendering enabled the tick at (261, 339) goes straight to (0, 0);  *)
(* tick reports a frame exactly when the scanline wraps from 261 to 0.     *)
C6_Counters ==
    /\ ppu.cycle \in 0..340
    /\ ppu.scanline \in 0..261
    /\ obs.op = "tick" =>
        LET skip == /\ obs.from_scanline = 261 /\ obs.from_cycle = 339
                    /\ obs.from_odd /\ rendering_enabled(ppu.mask)
            wrap == obs.from_cycle = 340 \/ skip
        IN  /\ ppu.cycle = IF wrap THEN 0 ELSE obs.from_cycle + 1
            /\ ppu.scanline = IF wrap THEN (obs.from_scanline + 1) % 262
                              ELSE obs.from_scanline
            /\ obs.frame <=> (obs.from_scanline = 261 /\ ppu.scanline = 0)

\* the skipping tick: from (261, 339) of an odd frame to (0, 0), frame reported
C6_Witness ==
    /\ obs.op = "tick" /\ obs.frame
    /\ obs.from_scanline = 261 /\ obs.from_cycle = 339
    /\ ppu.scanline = 0 /\ ppu.cycle = 0

(***************************************************************************)
(* The bus driving the PPU: Bus::tick with any small cycle count, and      *)
(* single PPU dots between the calls so that a call can start anywhere.    *)
(***************************************************************************)
InitBus ==
    /\ ppu = PPU_new
    /\ joypad1 = Joypad_new
    /\ cpu = CPU_new
    /\ status = "Stopped"
    /\ desk = Desk_new
    /\ core = Core_new
    /\ vmem = VMem_new
    /\ obs = PpuObs0

BusTick(cycles) ==
    /\ ppu.frame_count < MaxBusFrames
    /\ \E b \in {Bus_tick(ppu, cycles)} :
       /\ ppu' = b.ppu
       /\ obs' = PpuObserve("bus_tick", ppu, cycles, b.dots, b.frame)
    /\ UNCHANGED <<joypad1, cpu, status, desk, core, vmem>>

\* PPU::tick between two bus calls
BusDot ==
    /\ ppu.frame_count < MaxBusFrames
    /\ Tick

NextBus ==
    \/ \E cycles \in 1..MaxTickCycles : BusTick(cycles)
    \/ BusDot

SpecBus == InitBus /\ [][NextBus]_vars

(* C1: Bus.tick(n) advances the PPU by exactly 3*n dots from any position, *)
(* also when the end of the frame is crossed during the call, and returns  *)
(* a frame if and only if the end of the frame was crossed.                *)
C1_TickRuns3n ==
    obs.op = "bus_tick" =>
        /\ obs.ticked = 3 * obs.cycles
        /\ obs.frame <=> (ppu.frame_count = obs.from_frames + 1)

(***************************************************************************)
(* The emulator: NES::new, start_emulation, then emulate_frame called      *)
(* again and again by a frontend while the emulator is running.            *)
(***************************************************************************)
\* the observation kept of emulate_frame calls
\*   frame, ret       the call returned a frame; the cycles CPU::run returned
\*   advance          how far the CPU cycle counter moved in the call
\*   ticked           PPU dots run in the call
\*   from_frames      ppu.frame_count before the call
\*  and, since the current frame began:
\*   latched, at_vbl  NMI latch events, and those at scanline 241, dot 1
\*   observed         polls by CPU::run that found an NMI
\*   armed            NMI-enable was set before the frame's first dot and
\*                    has stayed set
\*   read_on_vbl      PPUSTATUS was read with the PPU at scanline 241, dot 1
NesObs0 ==
    [ op |-> "none", frame |-> FALSE, ret |-> 0, advance |-> 0, ticked |-> 0,
      from_frames |-> 0,
      latched |-> 0, at_vbl |-> 0, observed |-> 0,
      armed |-> FALSE, read_on_vbl |-> FALSE ]

InitNES ==
    /\ ppu = PPU_new
    /\ joypad1 = Joypad_new
    /\ cpu = CPU_new
    /\ status = "Stopped"
    /\ desk = Desk_new
    /\ core = Core_new
    /\ vmem = VMem_new
    /\ obs = NesObs0

\* NES::start_emulation (the CPU reset leaves the cycle counter alone)
Start ==
    /\ status = "Stopped"
    /\ status' = "Running"
    /\ obs' = [obs EXCEPT !.op = "start"]
    /\ UNCHANGED <<ppu, joypad1, cpu, desk, core, vmem>>

Min(a, b) == IF a < b THEN a ELSE b

\* the program run by the CPU: NOPs, and around the start of vblank any of
\* the instructions
Program(p) ==
    IF p.scanline = VBLANK_SCANLINE /\ p.cycle < 6 * PortWindow
    THEN Instructions
    ELSE {instr \in Instructions : instr.mnemonic = "NOP"}

\* a frontend's call of NES::emulate_frame while is_running()
EmulateFrame(instr) ==
    /\ status = "Running"
    /\ ppu.frame_count < MaxNesFrames
    /\ \E r \in {NES_emulate_frame(cpu.cycles, ppu, instr)} :
       LET first == obs.frame \/ obs.op = "start"
           \* after the poll the latch is empty: a latch here is the write's
           by_write == IF r.run.ppu.nmi_interrupt THEN 1 ELSE 0
           enabled == generate_vblank_nmi(r.run.ppu.ctrl)
           reads_vbl == /\ instr.mnemonic = "LDA" /\ instr.addr = PPUSTATUS
                        /\ ppu.scanline = VBLANK_SCANLINE /\ ppu.cycle = 1
       IN
       /\ ppu' = r.ppu
       /\ cpu' = r.cpu
       /\ obs' =
            [ op |-> "emulate_frame", frame |-> r.frame, ret |-> r.run.ret,
              advance |-> r.cpu.cycles - cpu.cycles,
              ticked |-> r.tick.dots,
              from_frames |-> ppu.frame_count,
              latched |-> Min(2, (IF first THEN 0 ELSE obs.latched)
                                 + by_write + r.tick.latches),
              at_vbl |-> Min(2, (IF first THEN 0 ELSE obs.at_vbl)
                                + r.tick.at_vbl),
              observed |-> Min(2, (IF first THEN 0 ELSE obs.observed)
                                  + (IF r.run.nmi THEN 1 ELSE 0)),
              armed |-> IF first THEN enabled ELSE obs.armed /\ enabled,
              read_on_vbl |-> IF first THEN reads_vbl
                              ELSE obs.read_on_vbl \/ reads_vbl ]
    /\ UNCHANGED <<joypad1, status, desk, core, vmem>>

NextNES ==
    \/ Start
    \/ \E instr \in Program(ppu) : EmulateFrame(instr)

SpecNES == InitNES /\ [][NextNES]_vars

(* C2: the cycle delta one CPU step reports to the bus equals the amount   *)
(* the CPU cycle counter advanced during that step, the 7 cycles of an NMI *)
(* entry at the start of the step included.                                *)
C2_DeltaIsAdvance ==
    obs.op = "emulate_frame" => obs.ret = obs.advance

(* C3: with NMI-enable set (from before the frame's first dot) and left    *)
(* set, exactly one NMI is latched in the frame, at dot 1 of scanline 241, *)
(* and the CPU's polls find it exactly once.                               *)
C3_OneNmiPerFrame ==
    (obs.op = "emulate_frame" /\ obs.armed) =>
        /\ obs.latched <= 1
        /\ obs.at_vbl = obs.latched
        /\ obs.observed <= obs.latched
        /\ obs.frame => (obs.latched = 1 /\ obs.observed = 1)

\* a frame finished with NMI-enable set throughout: one latch, one poll hit
C3_Witness ==
    /\ obs.op = "emulate_frame" /\ obs.armed /\ obs.frame
    /\ obs.latched = 1 /\ obs.at_vbl = 1 /\ obs.observed = 1

(* C4: a CPU read of PPUSTATUS on the dot at which vblank would be set     *)
(* (scanline 241, dot 1) suppresses the vblank flag and the NMI for that   *)
(* frame.                                                                  *)
C4_ReadOnVblDotSuppresses ==
    (obs.op = "emulate_frame" /\ obs.read_on_vbl /\ ~obs.frame) =>
        (~ppu.vblank /\ obs.latched = 0)

MaxDeskFrames == 1

\* buttons the UI thread reports (A and B)
DeskButtons == {0, 1}

\* the observation kept of the frontend
\*   op          the last step taken under the mutex
\*   mid_frame   a button update found the PPU part-way through a frame
DeskObs0 == [ op |-> "none", mid_frame |-> FALSE ]

InitDesktop ==
    /\ ppu = PPU_new
    /\ joypad1 = Joypad_new
    /\ cpu = CPU_new
    /\ status = "Stopped"
    /\ desk = Desk_new
    /\ core = Core_new
    /\ vmem = VMem_new
    /\ obs = DeskObs0

\* emulation thread: let mut nes = nes.lock().unwrap();
EmuThreadLock ==
    /\ desk.mutex = "free"
    /\ desk' = [desk EXCEPT !.mutex = "emu"]
    /\ UNCHANGED <<ppu, joypad1, cpu, status, core, vmem, obs>>

\* emulation thread: the rest of the pass, if nes.is_running() one
\* emulate_frame; the guard is dropped at the end of the pass
EmuThreadPass(instr) ==
    /\ desk.mutex = "emu"
    /\ ppu.frame_count < MaxDeskFrames
    /\ desk' = [desk EXCEPT !.mutex = "free"]
    /\ IF status = "Running"
       THEN \E r \in {NES_emulate_frame(cpu.cycles, ppu, instr)} :
               /\ ppu' = r.ppu
               /\ cpu' = r.cpu
               /\ obs' = [obs EXCEPT !.op = "emulate_frame"]
       ELSE /\ obs' = [obs EXCEPT !.op = "idle"]
            /\ UNCHANGED <<ppu, cpu>>
    /\ UNCHANGED <<joypad1, status, core, vmem>>

\* UI thread: self.nes.lock() at the head of a message handler
UiLock(message) ==
    /\ desk.mutex = "free"
    /\ desk' = [desk EXCEPT !.mutex = "ui", !.message = message]
    /\ UNCHANGED <<ppu, joypad1, cpu, status, core, vmem, obs>>

\* UI thread, Message::RomOpened: the cartridge goes in and emulation starts
UiRomOpened ==
    /\ desk.mutex = "ui" /\ desk.message = "RomOpened"
    /\ desk' = [desk EXCEPT !.mutex = "free", !.message = "none"]
    /\ status' = "Running"
    /\ obs' = [obs EXCEPT !.op = "start"]
    /\ UNCHANGED <<ppu, joypad1, cpu, core, vmem>>

\* UI thread, Message::ButtonPressed: NES::button_pressed under the mutex
UiButtonPressed(button, pressed) ==
    /\ desk.mutex = "ui" /\ desk.message = "ButtonPressed"
    /\ desk' = [desk EXCEPT !.mutex = "free", !.message = "none"]
    /\ joypad1' = Joypad_set_button_pressed_status(joypad1, button, pressed)
    /\ obs' = [obs EXCEPT !.op = "button_pressed",
                          !.mid_frame = ~(ppu.scanline = 0 /\ ppu.cycle = 0)]
    /\ UNCHANGED <<ppu, cpu, status, core, vmem>>

NextDesktop ==
    \/ EmuThreadLock
    \/ \E instr \in Program(ppu) : EmuThreadPass(instr)
    \/ \E message \in {"RomOpened", "ButtonPressed"} : UiLock(message)
    \/ UiRomOpened
    \/ \E button \in DeskButtons, pressed \in BOOLEAN :
           UiButtonPressed(button, pressed)

SpecDesktop == InitDesktop /\ [][NextDesktop]_vars

(* C11: in the threaded desktop frontend a button update from the UI       *)
(* thread reaches the emulation between frames, never part-way through     *)
(* the emulation of a frame.                                               *)
C11_ButtonBetweenFrames ==
    obs.op = "button_pressed" => ~obs.mid_frame

(***************************************************************************)
(* The CPU on its own: CPU::run from a range of register states, with or   *)
(* without an NMI pending, on instructions that move PC, use the stack or  *)
(* change the flags.                                                       *)
(***************************************************************************)
\* steps a CPU run is followed for
MaxCpuSteps == 3

\* where the run starts: stack pointers (with the wrapping ones), program
\* counters (the second one three bytes below a page end), status bytes
CpuStackPointers == {0, 1, 253, 255}
CpuProgramCounters == {32768, 33021}
CpuStatusBytes == {36, 231}

\* operands of JMP and JSR, and branch offsets (as the byte fetched)
JumpTargets == {32768, 32769, 33022, 36864}
BranchOffsets == {1, 128, 254, 255}

\* the opcode table entries used (opcodes.rs), with their operands
Op(mnemonic, mode, len, cycles, operand, value) ==
    [ mnemonic |-> mnemonic, mode |-> mode, len |-> len, cycles |-> cycles,
      operand |-> operand, deref_base |-> 0, value |-> value ]

CpuInstructions ==
    { Op("JMP", "Absolute", 3, 3, t, 0) : t \in JumpTargets }
    \cup { Op("JSR", "Absolute", 3, 6, t, 0) : t \in {32769, 36864} }
    \cup { Op(m, "NoneAddressing", 2, 2, o, 0) :
             m \in {"BNE", "BCS"}, o \in BranchOffsets }
    \cup { Op("RTS", "NoneAddressing", 1, 6, 0, 0),
           Op("RTI", "NoneAddressing", 1, 6, 0, 0),
           Op("BRK", "NoneAddressing", 1, 7, 0, 0),
           Op("PHA", "NoneAddressing", 1, 3, 0, 0),
           Op("PLA", "NoneAddressing", 1, 4, 0, 0),
           Op("PHP", "NoneAddressing", 1, 3, 0, 0),
           Op("PLP", "NoneAddressing", 1, 4, 0, 0),
           Op("ADC", "Immediate", 2, 2, 128, 128),
           Op("LDA", "Immediate", 2, 2, 0, 0) }

\* the registers of a core, without its RAM
Registers(c) ==
    [ register_a |-> c.register_a, register_x |-> c.register_x,
      register_y |-> c.register_y, processor_status |-> c.processor_status,
      stack_pointer |-> c.stack_pointer, program_counter |-> c.program_counter,
      cycles |-> c.cycles ]

\* the observation kept of a CPU step
\*   steps        steps taken
\*   nmi, instr   whether the step began with an NMI entry; its instruction
\*   pre          the registers before the step
\*   entry        the registers as the NMI entry left them
\*   pushed       the bytes the NMI entry left on the stack, first pushed first
\*   pulled       the byte on top of the stack when the instruction began
\*   assigns      the instruction assigned PC (a jump, or a branch taken)
\*   target       PC as the instruction left it
\*   prev         the step before: its instruction, nmi and pre
CpuObs0 ==
    [ op |-> "none", steps |-> 0, nmi |-> FALSE,
      instr |-> Op("NOP", "Implied", 1, 2, 0, 0),
      pre |-> Registers(Core_new), entry |-> Registers(Core_new),
      pushed |-> <<>>, pulled |-> 0, assigns |-> FALSE, target |-> 0,
      prev |-> [ nmi |-> FALSE, mnemonic |-> "none",
                 pre |-> Registers(Core_new) ] ]

InitCpu ==
    /\ ppu = PPU_new
    /\ joypad1 = Joypad_new
    /\ cpu = CPU_new
    /\ status = "Stopped"
    /\ desk = Desk_new
    /\ core \in { [Core_new EXCEPT !.stack_pointer = sp,
                                   !.program_counter = pc,
                                   !.processor_status = p,
                                   !.register_a = 90,
                                   !.nmi_vector = 36864,
                                   !.irq_vector = 37120] :
                    sp \in CpuStackPointers, pc \in CpuProgramCounters,
                    p \in CpuStatusBytes }
    /\ vmem = VMem_new
    /\ obs = CpuObs0

\* the instructions of CPU::run that assign PC
AssignsPC(c, instr) ==
    \/ instr.mnemonic \in {"JMP", "JSR", "RTS", "RTI", "BRK"}
    \/ branch_taken(c, instr)

\* CPU::run, with an NMI pending or not
CpuRun(nmi, instr) ==
    /\ obs.steps < MaxCpuSteps
    /\ \E r \in {run(core, nmi, instr)} :
       /\ core' = r.core
       /\ obs' = [ op |-> "run", steps |-> obs.steps + 1, nmi |-> nmi,
                   instr |-> instr,
                   pre |-> Registers(core),
                   entry |-> Registers(r.entry),
                   pushed |-> IF nmi
                              THEN [i \in 1..3 |->
                                      mem_read(r.entry,
                                          STACK_BASE + U8(core.stack_pointer + 257 - i))]
                              ELSE <<>>,
                   pulled |-> mem_read(r.entry,
                                  STACK_BASE + U8(r.entry.stack_pointer + 1)),
                   assigns |-> AssignsPC(r.fetched, instr),
                   target |-> r.executed.program_counter,
                   prev |-> [ nmi |-> obs.nmi, mnemonic |-> obs.instr.mnemonic,
                              pre |-> obs.pre ] ]
    /\ UNCHANGED <<ppu, joypad1, cpu, status, desk, vmem>>

NextCpu == \E nmi \in BOOLEAN, instr \in CpuInstructions : CpuRun(nmi, instr)

SpecCpu == InitCpu /\ [][NextCpu]_vars

(* C12: on NMI entry the CPU pushes PC high byte then low byte, then the   *)
(* status byte with the B flag (bit 4) clear, sets the IRQ-disable flag,   *)
(* adds 7 cycles to the counter and loads PC from the vector at 0xFFFA.    *)
C12_NmiEntry ==
    (obs.op = "run" /\ obs.nmi) =>
        /\ obs.pushed[1] = obs.pre.program_counter \div 256
        /\ obs.pushed[2] = obs.pre.program_counter % 256
        /\ obs.pushed[3] = BitAnd(obs.pre.processor_status, 255 - BREAK_FLAG)
        /\ obs.entry.stack_pointer = U8(obs.pre.stack_pointer + 253)
        /\ obs.entry.processor_status = BitOr(obs.pre.processor_status, IRQ_FLAG)
        /\ obs.entry.cycles = obs.pre.cycles + 7
        /\ obs.entry.program_counter = core.nmi_vector

(* C13: after an instruction that assigns PC (JMP, JSR, RTS, RTI, BRK or a *)
(* taken branch) PC equals the assigned target, for every target and       *)
(* branch offset: the bytes - 1 advance is applied only to instructions    *)
(* that did not assign PC.                                                 *)
C13_AssignedTargetKept ==
    (obs.op = "run" /\ obs.assigns) => core.program_counter = obs.target

(* C14: stack round trips, for every starting stack pointer (the wrapping  *)
(* ones included): PHA then PLA restores A, PHP then PLP restores the      *)
(* status register, JSR followed by RTS resumes at the instruction after   *)
(* the JSR, NMI entry followed by RTI resumes at the interrupted PC with   *)
(* the pre-interrupt status; each time the stack pointer is back at its    *)
(* prior value.                                                            *)
Pair(first, second) ==
    /\ obs.op = "run" /\ ~obs.nmi /\ ~obs.prev.nmi
    /\ obs.prev.mnemonic = first /\ obs.instr.mnemonic = second

C14_StackRoundTrips ==
    /\ Pair("PHA", "PLA") =>
          /\ core.register_a = obs.prev.pre.register_a
          /\ core.stack_pointer = obs.prev.pre.stack_pointer
    /\ Pair("PHP", "PLP") =>
          /\ core.processor_status = obs.prev.pre.processor_status
          /\ core.stack_pointer = obs.prev.pre.stack_pointer
    /\ Pair("JSR", "RTS") =>
          /\ core.program_counter = U16(obs.prev.pre.program_counter + 3)
          /\ core.stack_pointer = obs.prev.pre.stack_pointer
    /\ (obs.op = "run" /\ obs.nmi /\ obs.instr.mnemonic = "RTI") =>
          /\ core.program_counter = obs.pre.program_counter
          /\ core.processor_status = obs.pre.processor_status
          /\ core.stack_pointer = obs.pre.stack_pointer

\* a JSR made with the stack pointer at 0x00, so that its two pushes wrap,
\* and the RTS that returns from it
C14_Witness ==
    /\ Pair("JSR", "RTS")
    /\ obs.prev.pre.stack_pointer = 0
    /\ core.stack_pointer = 0
    /\ core.program_counter = obs.prev.pre.program_counter + 3

MaxCycleSteps == 1

\* index registers, and the bases the indexed modes add them to: the
\* operand word of abs,X and abs,Y, the zero-page pointer of (ind),Y
IndexValues == {0, 1, 255}
IndexBases == {640, 767, 65535}

\* an opcode table entry with the operands it meets
Operands(mnemonic, mode, len, cycles) ==
    CASE mode \in {"AbsoluteX", "AbsoluteY"} ->
            { Op(mnemonic, mode, len, cycles, b, 129) : b \in IndexBases }
      [] mode = "IndirectY" ->
            { [Op(mnemonic, mode, len, cycles, 16, 129)
                  EXCEPT !.deref_base = b] : b \in IndexBases }
      [] mode = "NoneAddressing" ->
            { Op(mnemonic, mode, len, cycles, o, 0) : o \in BranchOffsets }
      [] OTHER -> { Op(mnemonic, mode, len, cycles, 0, 129) }

\* the rows of CPU_OPS_CODES used
CycleInstructions ==
    UNION { Operands(m, "Immediate", 2, 2) \cup Operands(m, "AbsoluteX", 3, 4)
            \cup Operands(m, "AbsoluteY", 3, 4) \cup Operands(m, "IndirectY", 2, 5) :
              m \in {"LDA", "EOR", "AND", "ORA", "ADC", "SBC", "CMP"} }
    \cup Operands("LDX", "Immediate", 2, 2) \cup Operands("LDX", "AbsoluteY", 3, 4)
    \cup Operands("LDY", "Immediate", 2, 2) \cup Operands("LDY", "AbsoluteX", 3, 4)
    \cup Operands("NOP", "Implied", 1, 2) \cup Operands("NOP", "AbsoluteX", 3, 4)
    \cup Operands("LAX", "AbsoluteY", 3, 4) \cup Operands("LAX", "IndirectY", 2, 5)
    \cup Operands("LAS", "AbsoluteY", 3, 2)
    \cup Operands("STA", "AbsoluteX", 3, 5) \cup Operands("STA", "AbsoluteY", 3, 5)
    \cup Operands("STA", "IndirectY", 2, 6)
    \cup Operands("ASL", "AbsoluteX", 3, 7)
    \cup UNION { Operands(m, "NoneAddressing", 2, 2) :
                   m \in {"BNE", "BEQ", "BCS", "BCC"} }

InitCycles ==
    /\ ppu = PPU_new
    /\ joypad1 = Joypad_new
    /\ cpu = CPU_new
    /\ status = "Stopped"
    /\ desk = Desk_new
    /\ core \in { [Core_new EXCEPT !.register_x = x, !.register_y = y,
                                   !.program_counter = pc,
                                   !.processor_status = p,
                                   !.register_a = 90,
                                   !.nmi_vector = 36864,
                                   !.irq_vector = 37120] :
                    x \in IndexValues, y \in IndexValues,
                    pc \in CpuProgramCounters, p \in CpuStatusBytes }
    /\ vmem = VMem_new
    /\ obs = CpuObs0

CycleRun(nmi, instr) ==
    /\ obs.steps < MaxCycleSteps
    /\ CpuRun(nmi, instr)

NextCycles ==
    \E nmi \in BOOLEAN, instr \in CycleInstructions : CycleRun(nmi, instr)

SpecCycles == InitCycles /\ [][NextCycles]_vars

\* the instruction of the step made an indexed access that crossed a page:
\* the base and the base plus the index register are in different pages
IndexedCrossing ==
    LET instr == obs.instr
        base == IF instr.mode = "IndirectY" THEN instr.deref_base
                ELSE instr.operand
        index == IF instr.mode = "AbsoluteX" THEN obs.pre.register_x
                 ELSE obs.pre.register_y
    IN /\ instr.mode \in {"AbsoluteX", "AbsoluteY", "IndirectY"}
       /\ (base \div 256) # (((base + index) % 65536) \div 256)

\* the branch of the step was taken; it went to another page than the one
\* of the instruction that follows it
BranchWasTaken ==
    LET z == TestBit(obs.entry.processor_status, 1)
        cy == TestBit(obs.entry.processor_status, 0)
    IN \/ obs.instr.mnemonic = "BNE" /\ ~z
       \/ obs.instr.mnemonic = "BEQ" /\ z
       \/ obs.instr.mnemonic = "BCS" /\ cy
       \/ obs.instr.mnemonic = "BCC" /\ ~cy

BranchCrossing ==
    LET next == (obs.entry.program_counter + 2) % 65536
        offset == IF obs.instr.operand >= 128 THEN obs.instr.operand - 256
                  ELSE obs.instr.operand
        to == (next + offset + 65536) % 65536
    IN (next \div 256) # (to \div 256)

\* the cycles the step should take when the mnemonics of reads are the
\* ones that pay for a page crossing
ExpectedCycles(reads) ==
    obs.instr.cycles
      + (IF obs.instr.mnemonic \in reads /\ IndexedCrossing THEN 1 ELSE 0)
      + (IF BranchWasTaken THEN 1 ELSE 0)
      + (IF BranchWasTaken /\ BranchCrossing THEN 1 ELSE 0)

ListedReads == {"LDA", "LDX", "LDY", "EOR", "AND", "ORA", "ADC", "SBC", "CMP", "NOP"}

MaxAluSteps == 1

Bytes == 0..255

\* status bytes: carry clear and set, the other arithmetic flags (N, V, Z)
\* clear and set
AluStatusBytes == {36, 37, 230, 231}

InitAlu ==
    /\ ppu = PPU_new
    /\ joypad1 = Joypad_new
    /\ cpu = CPU_new
    /\ status = "Stopped"
    /\ desk = Desk_new
    /\ core \in { [Core_new EXCEPT !.register_a = a,
                                   !.processor_status = p,
                                   !.program_counter = 32768] :
                    a \in Bytes, p \in AluStatusBytes }
    /\ vmem = VMem_new
    /\ obs = CpuObs0

AluRun(instr) ==
    /\ obs.steps < MaxAluSteps
    /\ CpuRun(FALSE, instr)

\* ADC and SBC with an immediate operand, every operand byte
AluInstructions ==
    { Op(m, "Immediate", 2, 2, 0, b) : m \in {"ADC", "SBC"}, b \in Bytes }

NextAlu == \E instr \in AluInstructions : AluRun(instr)

SpecAlu == InitAlu /\ [][NextAlu]_vars

\* bit 7 of a byte
Bit7(b) == (b \div 128) % 2

\* the integer result R of the step: A + M + C for ADC, A - M - (1 - C) for SBC
AluR ==
    LET a == obs.pre.register_a
        m == obs.instr.value
        carry_in == obs.pre.processor_status % 2
    IN IF obs.instr.mnemonic = "ADC" THEN a + m + carry_in
       ELSE a - m - (1 - carry_in)

(* C17: for all A and operand in 0..=255 and carry-in in {0,1}, ADC and    *)
(* SBC leave A equal to the low 8 bits of R, Carry equal to the unsigned   *)
(* carry (ADC) or no-borrow (SBC), Overflow equal to                       *)
(* ((A ^ R) & (operand ^ R) & 0x80) != 0 for ADC and                       *)
(* ((A ^ R) & (A ^ operand) & 0x80) != 0 for SBC, and Zero and Negative    *)
(* reflecting the result.                                                  *)
C17_AdcSbc ==
    (obs.op = "run" /\ obs.instr.mnemonic \in {"ADC", "SBC"}) =>
        LET a == obs.pre.register_a
            m == obs.instr.value
            low == (AluR + 256) % 256
            adcop == obs.instr.mnemonic = "ADC"
        IN /\ core.register_a = low
           /\ get_flag(core, CARRY_FLAG) = (IF adcop THEN AluR > 255 ELSE AluR >= 0)
           /\ get_flag(core, OVERFLOW_FLAG) =
                 (IF adcop
                  THEN Bit7(a) # Bit7(low) /\ Bit7(m) # Bit7(low)
                  ELSE Bit7(a) # Bit7(low) /\ Bit7(a) # Bit7(m))
           /\ get_flag(core, ZERO_FLAG) = (low = 0)
           /\ get_flag(core, NEGATIVE_FLAG) = (Bit7(low) = 1)

\* SBC of 0x01 from 0x80 with the carry set: 0x7F, no borrow, signed overflow
C17_Witness ==
    /\ obs.op = "run" /\ obs.instr.mnemonic = "SBC"
    /\ obs.pre.register_a = 128 /\ obs.instr.value = 1
    /\ obs.pre.processor_status % 2 = 1
    /\ core.register_a = 127
    /\ get_flag(core, CARRY_FLAG) /\ get_flag(core, OVERFLOW_FLAG)

(***************************************************************************)
(* The PPU's register ports under CPU reads and writes.                    *)
(***************************************************************************)
\* port accesses followed
MaxPortOps == 3

\* the bytes written, and the ports
PortBytes == {0, 21, 170, 255}
PortRegisters == {PPUCTRL, PPUMASK, PPUSTATUS, OAMADDR, OAMDATA, PPUSCROLL,
                  PPUADDR, PPUDATA}

\* the observation kept of a port access: the port, the byte written, the
\* byte read, and the last byte written to any port (-1 before the first)
PortObs0 ==
    [ op |-> "none", steps |-> 0, address |-> 0, data |-> 0, ret |-> 0,
      last_written |-> -1 ]

\* the PPU at power-on, and in vertical blank with no port touched yet
InitPorts ==
    /\ ppu \in { PPU_new,
                 [PPU_new EXCEPT !.scanline = VBLANK_SCANLINE, !.cycle = 2,
                                 !.vblank = TRUE] }
    /\ joypad1 = Joypad_new
    /\ cpu = CPU_new
    /\ status = "Stopped"
    /\ desk = Desk_new
    /\ core = Core_new
    /\ vmem \in { [VMem_new EXCEPT !.mirroring = mi] :
                    mi \in {"Horizontal", "Vertical"} }
    /\ obs = PortObs0

\* Bus::mem_write to a PPU port (a PPUDATA write into 0x3000..=0x3EFF stops
\* the program)
PortWrite(address, data) ==
    /\ obs.steps < MaxPortOps
    /\ ~(address = PPUDATA /\ vmem.v % 16384 >= 12288 /\ vmem.v % 16384 <= 16127)
    /\ \E r \in {PPU_cpu_write(ppu, vmem, address, data)} :
       /\ ppu' = r.ppu
       /\ vmem' = r.vmem
    /\ obs' = [obs EXCEPT !.op = "write", !.steps = @ + 1,
                          !.address = address, !.data = data,
                          !.last_written = data]
    /\ UNCHANGED <<joypad1, cpu, status, desk, core>>

\* Bus::mem_read of a PPU port
PortRead(address) ==
    /\ obs.steps < MaxPortOps
    /\ \E r \in {PPU_cpu_read(ppu, vmem, address)} :
       /\ ppu' = r.ppu
       /\ vmem' = r.vmem
       /\ obs' = [obs EXCEPT !.op = "read", !.steps = @ + 1,
                             !.address = address, !.ret = r.ret]
    /\ UNCHANGED <<joypad1, cpu, status, desk, core>>

NextPorts ==
    \/ \E address \in PortRegisters, data \in PortBytes : PortWrite(address, data)
    \/ \E address \in PortRegisters : PortRead(address)

SpecPorts == InitPorts /\ [][NextPorts]_vars

(* C18: a CPU read of PPUCTRL, PPUMASK, OAMADDR, PPUSCROLL or PPUADDR      *)
(* returns the last value the CPU wrote to any PPU register, and the low   *)
(* five bits of a PPUSTATUS read equal the low five bits of that value,    *)
(* whatever PPU register reads were made in between.                       *)
C18_ReadsReturnLastWritten ==
    (obs.op = "read" /\ obs.last_written # -1) =>
        /\ obs.address \in {PPUCTRL, PPUMASK, OAMADDR, PPUSCROLL, PPUADDR} =>
              obs.ret = obs.last_written
        /\ obs.address = PPUSTATUS => obs.ret % 32 = obs.last_written % 32

(***************************************************************************)
(* OAM DMA: Bus::mem_write(0x4014, page) copies 256 bytes read through     *)
(* Bus::mem_read into OAM.                                                 *)
(***************************************************************************)
\* Bus::mem_read: the new PPU, memories and joypad 1, and the byte read
\* (the cartridge is the NROM mapper with one 16 KiB bank)
Bus_mem_read(p, m, j, addr) ==
    CASE addr <= 8191 ->
            [ppu |-> p, vmem |-> m, joypad |-> j,
             ret |-> Cell(m.cpu_vram, addr % 2048, 0)]
      [] addr >= 8192 /\ addr <= 16383 ->
            CHOOSE out \in
                { [ppu |-> r.ppu, vmem |-> r.vmem, joypad |-> j, ret |-> r.ret] :
                    r \in {PPU_cpu_read(p, m, addr)} } : TRUE
      [] addr = 16406 ->
            CHOOSE out \in
                { [ppu |-> p, vmem |-> m, joypad |-> r.joypad, ret |-> r.ret] :
                    r \in {Joypad_read(j)} } : TRUE
      [] addr = 16407 ->
            CHOOSE out \in
                { [ppu |-> p, vmem |-> [m EXCEPT !.joypad2 = r.joypad],
                   joypad |-> j, ret |-> r.ret] :
                    r \in {Joypad_read(m.joypad2)} } : TRUE
      [] addr >= 32768 ->
            [ppu |-> p, vmem |-> m, joypad |-> j,
             ret |-> Cell(m.prg_rom, addr % 16384, 0)]
      [] OTHER ->
            [ppu |-> p, vmem |-> m, joypad |-> j, ret |-> 0]

\* the body of the loop of Bus::dma_transfer with oam_addr running past 0xFF
dma_step_NoWrap(st, hi, i) ==
    CHOOSE out \in
        { [ppu |-> r.ppu, joypad |-> r.joypad,
           vmem |-> [r.vmem EXCEPT
                        !.oam_data = Store(@, r.vmem.oam_addr, r.ret),
                        !.oam_addr = @ + 1],
           read |-> Append(st.read, r.ret)] :
            r \in {Bus_mem_read(st.ppu, st.vmem, st.joypad, hi + i)} } : TRUE

\* the body of the loop of Bus::dma_transfer: one byte read and stored at
\* oam_addr, which then advances and wraps
dma_step(st, hi, i) ==
    CHOOSE out \in
        { [ppu |-> r.ppu, joypad |-> r.joypad,
           vmem |-> [r.vmem EXCEPT
                        !.oam_data = Store(@, r.vmem.oam_addr, r.ret),
                        !.oam_addr = (@ + 1) % 256],
           read |-> Append(st.read, r.ret)] :
            r \in {Bus_mem_read(st.ppu, st.vmem, st.joypad, hi + i)} } : TRUE

\* for i in 0..256u16 { ... }: the n passes from pass i on, in order (the
\* first half of them, then the rest)
RECURSIVE dma_loop(_, _, _, _)
dma_loop(st, hi, i, n) ==
    IF n = 1 THEN dma_step(st, hi, i)
    ELSE CHOOSE out \in
             { dma_loop(s1, hi, i + (n \div 2), n - (n \div 2)) :
                 s1 \in {dma_loop(st, hi, i, n \div 2)} } : TRUE

\* Bus::dma_transfer; read is the sequence of the bytes the loop read
dma_transfer(p, m, j, data) ==
    CHOOSE out \in
        { dma_loop(st, data * 256, 0, 256) :
            st \in {[ppu |-> p, vmem |-> m, joypad |-> j, read |-> <<>>]} } : TRUE

\* bus writes followed
MaxDmaOps == 2

\* the OAM addresses set before a transfer and the pages transferred: CPU
\* RAM and its mirror, the PPU ports and their last mirror, the APU and
\* joypad page, the program ROM
DmaAddrs == {0, 1, 128, 255}
DmaPages == {0, 2, 7, 15, 32, 63, 64, 128}

\* what the CPU RAM and the program ROM hold
RamByte(seed, i) == (i * seed + (i \div 256)) % 256

DmaObs0 ==
    [ op |-> "none", steps |-> 0, page |-> 0, a |-> 0, read |-> <<>> ]

InitDma ==
    /\ ppu \in { PPU_new,
                 [PPU_new EXCEPT !.scanline = VBLANK_SCANLINE, !.cycle = 2,
                                 !.vblank = TRUE] }
    /\ joypad1 = Joypad_new
    /\ cpu = CPU_new
    /\ status = "Stopped"
    /\ desk = Desk_new
    /\ core = Core_new
    /\ vmem \in { [VMem_new EXCEPT
                      !.cpu_vram = [i \in 0..2047 |-> RamByte(seed, i)],
                      !.prg_rom = [i \in 0..255 |-> RamByte(seed + 2, i)]] :
                    seed \in {1, 5} }
    /\ obs = DmaObs0

\* Bus::mem_write(0x2003, a)
DmaSetAddr(a) ==
    /\ obs.steps < MaxDmaOps
    /\ \E r \in {PPU_cpu_write(ppu, vmem, OAMADDR, a)} :
       /\ ppu' = r.ppu
       /\ vmem' = r.vmem
    /\ obs' = [obs EXCEPT !.op = "oamaddr", !.steps = @ + 1]
    /\ UNCHANGED <<joypad1, cpu, status, desk, core>>

\* Bus::mem_write(0x4014, page)
DmaWrite(page) ==
    /\ obs.steps < MaxDmaOps
    /\ \E r \in {dma_transfer(ppu, vmem, joypad1, page)} :
       /\ ppu' = r.ppu
       /\ vmem' = r.vmem
       /\ joypad1' = r.joypad
       /\ obs' = [ op |-> "dma", steps |-> obs.steps + 1, page |-> page,
                   a |-> vmem.oam_addr, read |-> r.read ]
    /\ UNCHANGED <<cpu, status, desk, core>>

NextDma ==
    \/ \E a \in DmaAddrs : DmaSetAddr(a)
    \/ \E page \in DmaPages : DmaWrite(page)

SpecDma == InitDma /\ [][NextDma]_vars

(* C19: an OAM DMA triggered by writing page p to 0x4014 leaves oam_addr   *)
(* equal to its value a before the transfer and, for every i in 0..=255,   *)
(* leaves OAM[(a + i) mod 256] equal to the byte read from CPU address     *)
(* (p << 8) | i (for a page of CPU RAM: the byte the RAM holds there).     *)
C19_OamDma ==
    obs.op = "dma" =>
        /\ vmem.oam_addr = obs.a
        /\ Len(obs.read) = 256
        /\ \A i \in 0..255 :
              /\ Cell(vmem.oam_data, (obs.a + i) % 256, OAM_RESET) = obs.read[i + 1]
              /\ obs.page < 32 =>
                    obs.read[i + 1] = vmem.cpu_vram[(obs.page * 256 + i) % 2048]

\* a transfer of RAM page 7 begun at OAM address 255: the first byte lands
\* in OAM[255], the second in OAM[0]
C19_Witness ==
    /\ obs.op = "dma" /\ obs.page = 7 /\ obs.a = 255
    /\ vmem.oam_addr = 255
    /\ Cell(vmem.oam_data, 255, OAM_RESET) = vmem.cpu_vram[1792]
    /\ Cell(vmem.oam_data, 0, OAM_RESET) = vmem.cpu_vram[1793]
    /\ vmem.cpu_vram[1792] # vmem.cpu_vram[1793]

(***************************************************************************)
(* Nametable mirroring: bytes written through PPUADDR and PPUDATA, read    *)
(* back with PPU::mem_read at every nametable address.                     *)
(***************************************************************************)
\* port writes followed
MaxVramOps == 4

\* the bytes written to PPUADDR (high or low byte of the address) and to
\* PPUDATA
VramAddrBytes == {0, 32, 36, 43, 47, 255}
VramDataBytes == {66, 132}

\* the nametable addresses, 0x2000..=0x2FFF
NametableAddrs == 8192..12287

\* the observation kept of a PPUDATA write: the address v pointed at, the
\* byte, and the nametable RAM as it was before
VramObs0 ==
    [ op |-> "none", steps |-> 0, a |-> 0, data |-> 0, before |-> <<>> ]

InitVram ==
    /\ ppu = PPU_new
    /\ joypad1 = Joypad_new
    /\ cpu = CPU_new
    /\ status = "Stopped"
    /\ desk = Desk_new
    /\ core = Core_new
    /\ vmem \in { [VMem_new EXCEPT !.mirroring = mi] :
                    mi \in {"Horizontal", "Vertical"} }
    /\ obs = VramObs0

\* Bus::mem_write(0x2006, data)
VramAddrWrite(data) ==
    /\ obs.steps < MaxVramOps
    /\ \E r \in {PPU_cpu_write(ppu, vmem, PPUADDR, data)} :
       /\ ppu' = r.ppu
       /\ vmem' = r.vmem
    /\ obs' = [obs EXCEPT !.op = "ppuaddr", !.steps = @ + 1]
    /\ UNCHANGED <<joypad1, cpu, status, desk, core>>

\* Bus::mem_write(0x2007, data) (a write into 0x3000..=0x3EFF stops the
\* program)
VramDataWrite(data) ==
    /\ obs.steps < MaxVramOps
    /\ ~(vmem.v % 16384 >= 12288 /\ vmem.v % 16384 <= 16127)
    /\ \E r \in {PPU_cpu_write(ppu, vmem, PPUDATA, data)} :
       /\ ppu' = r.ppu
       /\ vmem' = r.vmem
    /\ obs' = [ op |-> "ppudata", steps |-> obs.steps + 1,
                a |-> vmem.v % 16384, data |-> data, before |-> vmem.vram ]
    /\ UNCHANGED <<joypad1, cpu, status, desk, core>>

NextVram ==
    \/ \E data \in VramAddrBytes : VramAddrWrite(data)
    \/ \E data \in VramDataBytes : VramDataWrite(data)

SpecVram == InitVram /\ [][NextVram]_vars

\* a with bit 10 (0x0400) or bit 11 (0x0800) flipped
FlipBit(a, i) == IF TestBit(a, i) THEN a - Pow2(i) ELSE a + Pow2(i)

(* C20: under vertical mirroring a byte written at nametable address a in  *)
(* 0x2000-0x2FFF is read back at a and at a XOR 0x0800 and at no other     *)
(* nametable address (every other address reads what it read before);      *)
(* under horizontal mirroring it is read back at a and at a XOR 0x0400 and *)
(* at no other nametable address.                                          *)
C20_Mirroring ==
    (obs.op = "ppudata" /\ obs.a \in NametableAddrs) =>
        LET alias == IF vmem.mirroring = "Vertical"
                     THEN FlipBit(obs.a, 11) ELSE FlipBit(obs.a, 10)
        IN \A b \in NametableAddrs :
              PPU_mem_read(vmem, b) =
                  IF b \in {obs.a, alias} THEN obs.data
                  ELSE PPU_mem_read([vmem EXCEPT !.vram = obs.before], b)

\* under vertical mirroring, 0x84 written at 0x2400 is read at 0x2C00 and
\* not at 0x2000 or 0x2800
C20_Witness ==
    /\ obs.op = "ppudata" /\ vmem.mirroring = "Vertical"
    /\ obs.a = 9216 /\ obs.data = 132
    /\ PPU_mem_read(vmem, 11264) = 132
    /\ PPU_mem_read(vmem, 8192) # 132
    /\ PPU_mem_read(vmem, 10240) # 132

(***************************************************************************)
(* PPU memory behind PPUDATA under every mirroring a header can declare:   *)
(* the nametable RAM is 2 KiB, the palette RAM 32 bytes, and an index      *)
(* outside an array stops the program.                                     *)
(***************************************************************************)
\* the length of PPU::vram, 2 * NAMETABLE_SIZE
VRAM_SIZE == 2048

\* the length of PPU::palette_table
PALETTE_SIZE == 32

\* PPU::mem_read / PPU::mem_write stop the program: an index past the end
\* of vram, the unimplemented!() arm of mem_write, or the panic!() arm
PPU_mem_panics(m, address, write) ==
    \/ /\ address >= 8192 /\ address <= (IF write THEN 12287 ELSE 16127)
       /\ mirror_nametable(m, address) >= VRAM_SIZE
    \/ write /\ address >= 12288 /\ address <= 16127
    \/ address >= 16128 /\ address <= 16383
       /\ mirror_palette(address) >= PALETTE_SIZE
    \/ address > 16383

\* port accesses followed
MaxMemOps == 3

\* the bytes written to PPUADDR
MemAddrBytes == {0, 4, 8, 12, 16, 20, 24, 28, 32, 40, 47, 63}

\* the palette addresses, 0x3F00..=0x3FFF
PaletteAddrs == 16128..16383

\* nametable and palette RAM after earlier writes: every cell distinct from
\* its neighbours and from the bytes written here
FilledVram == [i \in 0..(VRAM_SIZE - 1) |-> (i % 61) + 1]
FilledPalette == [i \in 0..(PALETTE_SIZE - 1) |-> i + 1]

\* the observation kept of a PPUDATA access: the address v pointed at, the
\* byte written, the memories as they were before, and whether the access
\* stopped the program
MemObs0 ==
    [ op |-> "none", steps |-> 0, a |-> 0, data |-> 0,
      before |-> VMem_new, panicked |-> FALSE ]

InitMem ==
    /\ ppu = PPU_new
    /\ joypad1 = Joypad_new
    /\ cpu = CPU_new
    /\ status = "Stopped"
    /\ desk = Desk_new
    /\ core = Core_new
    /\ vmem \in { [VMem_new EXCEPT !.mirroring = mi,
                                   !.vram = IF filled THEN FilledVram ELSE <<>>,
                                   !.palette_table =
                                       IF filled THEN FilledPalette ELSE <<>>] :
                    mi \in {"Horizontal", "Vertical", "FourScreen"},
                    filled \in BOOLEAN }
    /\ obs = MemObs0

\* Bus::mem_write(0x2006, data)
MemAddrWrite(data) ==
    /\ obs.steps < MaxMemOps
    /\ ~obs.panicked
    /\ \E r \in {PPU_cpu_write(ppu, vmem, PPUADDR, data)} :
       /\ ppu' = r.ppu
       /\ vmem' = r.vmem
    /\ obs' = [obs EXCEPT !.op = "ppuaddr", !.steps = @ + 1]
    /\ UNCHANGED <<joypad1, cpu, status, desk, core>>

\* Bus::mem_write(0x2007, data)
MemDataWrite(data) ==
    /\ obs.steps < MaxMemOps
    /\ ~obs.panicked
    /\ \E a \in {vmem.v % 16384} :
       /\ IF PPU_mem_panics(vmem, a, TRUE)
          THEN UNCHANGED <<ppu, vmem>>
          ELSE \E r \in {PPU_cpu_write(ppu, vmem, PPUDATA, data)} :
                  /\ ppu' = r.ppu
                  /\ vmem' = r.vmem
       /\ obs' = [ op |-> "ppudata", steps |-> obs.steps + 1, a |-> a,
                   data |-> data, before |-> vmem,
                   panicked |-> PPU_mem_panics(vmem, a, TRUE) ]
    /\ UNCHANGED <<joypad1, cpu, status, desk, core>>

\* Bus::mem_read(0x2007)
MemDataRead ==
    /\ obs.steps < MaxMemOps
    /\ ~obs.panicked
    /\ \E a \in {vmem.v % 16384} :
       /\ IF PPU_mem_panics(vmem, a, FALSE)
          THEN UNCHANGED <<ppu, vmem>>
          ELSE \E r \in {PPU_cpu_read(ppu, vmem, PPUDATA)} :
                  /\ ppu' = r.ppu
                  /\ vmem' = r.vmem
       /\ obs' = [ op |-> "read", steps |-> obs.steps + 1, a |-> a,
                   data |-> 0, before |-> vmem,
                   panicked |-> PPU_mem_panics(vmem, a, FALSE) ]
    /\ UNCHANGED <<joypad1, cpu, status, desk, core>>

NextMem ==
    \/ \E data \in MemAddrBytes : MemAddrWrite(data)
    \/ \E data \in VramDataBytes : MemDataWrite(data)
    \/ MemDataRead

SpecMem == InitMem /\ [][NextMem]_vars

(* C21: under four-screen mirroring a PPUDATA read or write at any address *)
(* in 0x2000-0x2FFF completes normally, and a written byte is read back at *)
(* that address and at no other nametable address (every other address    *)
(* reads what it read before).                                             *)
C21_FourScreenPassesThrough ==
    (/\ vmem.mirroring = "FourScreen"
     /\ obs.op \in {"ppudata", "read"}
     /\ obs.a \in NametableAddrs) =>
        /\ ~obs.panicked
        /\ obs.op = "ppudata" =>
              \A b \in NametableAddrs :
                 PPU_mem_read(vmem, b) =
                     IF b = obs.a THEN obs.data
                     ELSE PPU_mem_read(obs.before, b)

\* the palette entry the specification gives an address: the address modulo
\* 32, entries 0x10, 0x14, 0x18, 0x1C being entries 0x00, 0x04, 0x08, 0x0C
SameEntry(a, b) ==
    \/ a % 32 = b % 32
    \/ a % 4 = 0 /\ b % 4 = 0 /\ a % 16 = b % 16

(* C22: for every address in 0x3F00-0x3FFF the palette RAM index is in     *)
(* [0, 0x20); a byte written at a palette address is read back at every    *)
(* address of the same entry, 0x3F10, 0x3F14, 0x3F18, 0x3F1C being the     *)
(* entries of 0x3F00, 0x3F04, 0x3F08, 0x3F0C and vice versa, and every     *)
(* other palette address reads what it read before.                        *)
C22_Palette ==
    /\ \A b \in PaletteAddrs :
          mirror_palette(b) >= 0 /\ mirror_palette(b) < PALETTE_SIZE
    /\ (obs.op = "ppudata" /\ obs.a \in PaletteAddrs) =>
          /\ ~obs.panicked
          /\ \A b \in PaletteAddrs :
                PPU_mem_read(vmem, b) =
                    IF SameEntry(obs.a, b) THEN obs.data
                    ELSE PPU_mem_read(obs.before, b)

\* 0x84 written at 0x3F14 over a filled palette is read at 0x3F04 and at
\* 0x3F34, and 0x3F00 and 0x3F15 read what they read before
C22_Witness ==
    /\ obs.op = "ppudata" /\ obs.a = 16148 /\ obs.data = 132
    /\ ~obs.panicked
    /\ obs.before.palette_table = FilledPalette
    /\ PPU_mem_read(vmem, 16132) = 132
    /\ PPU_mem_read(vmem, 16180) = 132
    /\ PPU_mem_read(vmem, 16128) = 1
    /\ PPU_mem_read(vmem, 16149) = 22

(***************************************************************************)
(* The scroll registers v and t under port writes, PPUDATA accesses and    *)
(* rendering ticks.                                                        *)
(***************************************************************************)
\* port accesses and bus ticks followed, and the bus ticks among them
MaxScrollOps == 5
MaxScrollTicks == 2

\* the bytes written to PPUCTRL, PPUMASK, PPUSCROLL and PPUADDR
ScrollBytes == {0, 255}

\* the CPU cycles of a bus tick
ScrollCycles == {1, 8}

\* the dots the PPU is on when the CPU begins: power-on, and late in the
\* pre-render scanline and in a visible scanline
ScrollDots == { <<0, 0>>, <<261, 256>>, <<100, 254>> }

ScrollObs0 == [ op |-> "none", steps |-> 0, ticks |-> 0 ]

InitScroll ==
    /\ ppu \in { [PPU_new EXCEPT !.scanline = d[1], !.cycle = d[2]] :
                   d \in ScrollDots }
    /\ joypad1 = Joypad_new
    /\ cpu = CPU_new
    /\ status = "Stopped"
    /\ desk = Desk_new
    /\ core = Core_new
    /\ vmem = VMem_new
    /\ obs = ScrollObs0

\* Bus::mem_write to PPUCTRL, PPUMASK, PPUSCROLL or PPUADDR
ScrollWrite(reg, data) ==
    /\ obs.steps < MaxScrollOps
    /\ \E r \in {PPU_cpu_write(ppu, vmem, reg, data)} :
       /\ ppu' = r.ppu
       /\ vmem' = r.vmem
    /\ obs' = [obs EXCEPT !.op = "write", !.steps = @ + 1]
    /\ UNCHANGED <<joypad1, cpu, status, desk, core>>

\* Bus::mem_write(0x2007, data) (a write that stops the program is not
\* followed)
ScrollDataWrite(data) ==
    /\ obs.steps < MaxScrollOps
    /\ ~PPU_mem_panics(vmem, vmem.v % 16384, TRUE)
    /\ \E r \in {PPU_cpu_write(ppu, vmem, PPUDATA, data)} :
       /\ ppu' = r.ppu
       /\ vmem' = r.vmem
    /\ obs' = [obs EXCEPT !.op = "ppudata", !.steps = @ + 1]
    /\ UNCHANGED <<joypad1, cpu, status, desk, core>>

\* Bus::mem_read(0x2007)
ScrollDataRead ==
    /\ obs.steps < MaxScrollOps
    /\ ~PPU_mem_panics(vmem, vmem.v % 16384, FALSE)
    /\ \E r \in {PPU_cpu_read(ppu, vmem, PPUDATA)} :
       /\ ppu' = r.ppu
       /\ vmem' = r.vmem
    /\ obs' = [obs EXCEPT !.op = "read", !.steps = @ + 1]
    /\ UNCHANGED <<joypad1, cpu, status, desk, core>>

\* Bus::tick(cycles)
ScrollTick(cycles) ==
    /\ obs.steps < MaxScrollOps
    /\ obs.ticks < MaxScrollTicks
    /\ \E r \in {ScrollLoop([ppu |-> ppu, vmem |-> vmem, frame |-> FALSE],
                             cycles * 3)} :
       /\ ppu' = r.ppu
       /\ vmem' = r.vmem
    /\ obs' = [obs EXCEPT !.op = "tick", !.steps = @ + 1, !.ticks = @ + 1]
    /\ UNCHANGED <<joypad1, cpu, status, desk, core>>

NextScroll ==
    \/ \E reg \in {PPUCTRL, PPUMASK, PPUSCROLL, PPUADDR}, data \in ScrollBytes :
          ScrollWrite(reg, data)
    \/ \E data \in VramDataBytes : ScrollDataWrite(data)
    \/ ScrollDataRead
    \/ \E cycles \in ScrollCycles : ScrollTick(cycles)

SpecScroll == InitScroll /\ [][NextScroll]_vars

(* C23: in every reachable PPU state the scroll registers v and t hold     *)
(* 15-bit values, never above 0x7FFF, under any sequence of PPUCTRL,       *)
(* PPUSCROLL and PPUADDR writes, PPUDATA reads and writes, and rendering   *)
(* ticks.                                                                  *)
C23_FifteenBits ==
    /\ vmem.v >= 0 /\ vmem.v <= 32767
    /\ vmem.t >= 0 /\ vmem.t <= 32767

(***************************************************************************)
(* ROM parsing (rom.rs).  The parser reads the length of the byte slice,   *)
(* its first four bytes and header bytes 4 to 7; the rest is copied.  raw  *)
(* is the slice as the parser sees it: its length, whether its first four  *)
(* bytes are NES_TAG, and bytes 4 to 7.  An index or a range past the end  *)
(* of the slice panics.                                                    *)
(***************************************************************************)
PRG_ROM_PAGE_SIZE == 16384
CHR_ROM_PAGE_SIZE == 8192

\* parse_ines_header
parse_ines_header(raw) ==
    IF raw.len < 4 THEN [kind |-> "panic"]
    ELSE IF ~raw.tag THEN [kind |-> "Err", error |-> "not iNES"]
    ELSE IF raw.len < 8 THEN [kind |-> "panic"]
    ELSE IF (raw.b7 \div 4) % 4 # 0
        THEN [kind |-> "Err", error |-> "NES2.0 not supported"]
    ELSE [kind |-> "Ok",
          prg_rom_size |-> raw.b4 * PRG_ROM_PAGE_SIZE,
          chr_rom_size |-> raw.b5 * CHR_ROM_PAGE_SIZE,
          mirroring |-> IF TestBit(raw.b6, 3) THEN "FourScreen"
                        ELSE IF TestBit(raw.b6, 0) THEN "Vertical"
                        ELSE "Horizontal",
          mapper_idx |-> ((raw.b7 \div 16) * 16) + (raw.b6 \div 16)]

\* create_mapper
create_mapper(mapper_idx) ==
    CASE mapper_idx = 0 -> [kind |-> "Ok", mapper |-> "NROM"]
      [] mapper_idx = 3 -> [kind |-> "Ok", mapper |-> "CNROM"]
      [] OTHER -> [kind |-> "Err", error |-> "mapper not implemented"]

\* ROM::from_bytes: the cartridge, an error, or a panic
ROM_from_bytes(raw) ==
    LET h == parse_ines_header(raw)
        prg_rom_start == 16 + (IF TestBit(raw.b6, 2) THEN 512 ELSE 0)
        chr_rom_start == prg_rom_start + h.prg_rom_size
        mapper == create_mapper(h.mapper_idx)
    IN IF h.kind # "Ok" THEN h
       ELSE IF prg_rom_start + h.prg_rom_size > raw.len
           THEN [kind |-> "panic"]
       ELSE IF chr_rom_start + h.chr_rom_size > raw.len
           THEN [kind |-> "panic"]
       ELSE IF mapper.kind # "Ok" THEN mapper
       ELSE [kind |-> "Ok",
             prg_rom_len |-> h.prg_rom_size,
             chr_rom_len |-> IF h.chr_rom_size = 0 THEN 8192
                             ELSE h.chr_rom_size,
             mapper |-> mapper.mapper,
             mirroring |-> h.mirroring]

\* the lengths of the slices parsed: empty, cut inside the tag, inside the
\* header, after the header, inside the body, and whole files
RomLengths ==
    {0, 3, 4, 7, 8, 16, 528, 8208, 16400, 16912, 24592, 25104, 40976}

\* header bytes 4 (PRG banks), 5 (CHR banks), 6 (flags, low mapper nibble)
\* and 7 (format bits, high mapper nibble)
RomPrgBanks == {0, 1, 2}
RomChrBanks == {0, 1}
RomFlags6 == {0, 1, 4, 8, 16, 48}
RomFlags7 == {0, 4, 8, 16}

RomInputs ==
    { [len |-> n, tag |-> tag, b4 |-> b4, b5 |-> b5, b6 |-> b6, b7 |-> b7] :
        n \in RomLengths, tag \in BOOLEAN, b4 \in RomPrgBanks,
        b5 \in RomChrBanks, b6 \in RomFlags6, b7 \in RomFlags7 }

\* calls followed
MaxRomCalls == 1

RomObs0 ==
    [ op |-> "none", steps |-> 0,
      raw |-> [len |-> 0, tag |-> FALSE, b4 |-> 0, b5 |-> 0, b6 |-> 0,
               b7 |-> 0],
      result |-> [kind |-> "none"] ]

InitRom ==
    /\ ppu = PPU_new
    /\ joypad1 = Joypad_new
    /\ cpu = CPU_new
    /\ status = "Stopped"
    /\ desk = Desk_new
    /\ core = Core_new
    /\ vmem = VMem_new
    /\ obs = RomObs0

\* ROM::from_bytes(raw)
FromBytes(raw) ==
    /\ obs.steps < MaxRomCalls
    /\ obs' = [ op |-> "from_bytes", steps |-> obs.steps + 1, raw |-> raw,
                result |-> ROM_from_bytes(raw) ]
    /\ UNCHANGED <<ppu, joypad1, cpu, status, desk, core, vmem>>

NextRom == \E raw \in RomInputs : FromBytes(raw)

SpecRom == InitRom /\ [][NextRom]_vars

\* the bytes the header declares: header, optional trainer, PRG and CHR
DeclaredLength(raw) ==
    16 + (IF TestBit(raw.b6, 2) THEN 512 ELSE 0)
       + raw.b4 * 16384 + raw.b5 * 8192

(* C24: ROM parsing returns the TruncatedRom error, and fails in no other  *)
(* way, whenever the header plus optional trainer plus the declared PRG    *)
(* and CHR sizes exceed the length of the slice (slices shorter than the   *)
(* 16-byte header included).  Stated for slices that begin with the tag    *)
(* and do not declare NES 2.0, which the parser rejects first.             *)
C24_TruncatedRom ==
    (/\ obs.op = "from_bytes"
     /\ obs.raw.tag
     /\ (obs.raw.b7 \div 4) % 4 = 0
     /\ DeclaredLength(obs.raw) > obs.raw.len) =>
        /\ obs.result.kind = "Err"
        /\ obs.result.error = "TruncatedRom"

(* C25: ROM parsing returns an error and produces no cartridge for any     *)
(* input of four bytes or more whose first four bytes are not the tag, for *)
(* any header that declares iNES 2.0 (bits 2-3 of byte 7 are 10), and for  *)
(* any header whose mapper index (byte7 & 0xF0) | (byte6 >> 4) is neither  *)
(* 0 nor 3.                                                                *)
C25_Rejects ==
    (/\ obs.op = "from_bytes"
     /\ \/ obs.raw.len >= 4 /\ ~obs.raw.tag
        \/ obs.raw.len >= 8 /\ obs.raw.tag /\ (obs.raw.b7 \div 4) % 4 = 2
        \/ /\ obs.raw.len >= 8 /\ obs.raw.tag
           /\ ((obs.raw.b7 \div 16) * 16) + (obs.raw.b6 \div 16) \notin {0, 3}) =>
        obs.result.kind = "Err"

(***************************************************************************)
(* The mappers (mappers/nrom.rs, mappers/cnrom.rs).  A mapper holds copies *)
(* of the cartridge's CHR and PRG bytes; chr_rom and prg_rom here are the  *)
(* cells written since, over the cartridge's bytes ChrByte and PrgByte.    *)
(* An index past the end of a Vec panics.                                  *)
(***************************************************************************)
\* the cartridge's bytes: each 8 KiB bank reads differently at every offset
ChrByte(i) == ((i % 251) + 7 * (i \div 8192)) % 256
PrgByte(i) == ((i % 241) + 11 * (i \div 16384)) % 256

\* NROM::new, CNROM::new
Mapper_new(kind, chr_len, prg_len) ==
    [ kind |-> kind, chr_len |-> chr_len, prg_len |-> prg_len,
      chr_rom |-> <<>>, prg_rom |-> <<>>, chr_bank |-> 0 ]

\* self.chr_rom[index], self.prg_rom[index]
ChrAt(mp, index) ==
    IF index >= mp.chr_len THEN [panic |-> TRUE, ret |-> 0]
    ELSE [panic |-> FALSE, ret |-> Cell(mp.chr_rom, index, ChrByte(index))]

PrgAt(mp, index) ==
    IF index >= mp.prg_len THEN [panic |-> TRUE, ret |-> 0]
    ELSE [panic |-> FALSE, ret |-> Cell(mp.prg_rom, index, PrgByte(index))]

\* self.chr_rom[index] = val, self.prg_rom[index] = val
ChrPut(mp, index, val) ==
    IF index >= mp.chr_len THEN [panic |-> TRUE, mapper |-> mp]
    ELSE [panic |-> FALSE,
          mapper |-> [mp EXCEPT !.chr_rom = Store(@, index, val)]]

PrgPut(mp, index, val) ==
    IF index >= mp.prg_len THEN [panic |-> TRUE, mapper |-> mp]
    ELSE [panic |-> FALSE,
          mapper |-> [mp EXCEPT !.prg_rom = Store(@, index, val)]]

\* NROM::read
NROM_read(mp, address) ==
    CASE address <= 8191 -> ChrAt(mp, address % mp.chr_len)
      [] address >= 32768 ->
            PrgAt(mp, IF mp.prg_len > 16384 THEN address % 32768
                      ELSE address % 16384)
      [] OTHER -> [panic |-> FALSE, ret |-> 0]

\* NROM::write
NROM_write(mp, address, val) ==
    CASE address <= 8191 -> ChrPut(mp, address % mp.chr_len, val)
      [] address >= 24576 /\ address <= 32767 ->
            PrgPut(mp, address - 24576, val)
      [] OTHER -> [panic |-> FALSE, mapper |-> mp]

\* CNROM::read
CNROM_read(mp, address) ==
    CASE address <= 8191 ->
            ChrAt(mp, (mp.chr_bank * 8192) + (address % 8192))
      [] address >= 32768 ->
            PrgAt(mp, IF mp.prg_len = 16384 THEN (address - 32768) % 16384
                      ELSE address - 32768)
      [] OTHER -> [panic |-> FALSE, ret |-> 0]

\* CNROM::write
CNROM_write(mp, address, val) ==
    CASE address <= 8191 ->
            ChrPut(mp, (mp.chr_bank * 8192) + (address % 8192), val)
      [] address >= 32768 ->
            [panic |-> FALSE, mapper |-> [mp EXCEPT !.chr_bank = val % 4]]
      [] OTHER -> [panic |-> FALSE, mapper |-> mp]

\* Mapper::read, Mapper::write through the trait object
Mapper_read(mp, address) ==
    IF mp.kind = "NROM" THEN NROM_read(mp, address)
    ELSE CNROM_read(mp, address)

Mapper_write(mp, address, val) ==
    IF mp.kind = "NROM" THEN NROM_write(mp, address, val)
    ELSE CNROM_write(mp, address, val)

\* mapper accesses followed
MaxMapperOps == 3

\* the addresses accessed: CHR, the 0x6000 window, the PRG window
MapperAddrs == {0, 8191, 24576, 32768, 65535}

\* the bytes written
MapperBytes == {1, 3, 85}

\* the sizes create_mapper hands over: CHR of 1, 2 or 4 banks of 8 KiB,
\* PRG of 1 or 2 banks of 16 KiB
ChrSizes == {8192, 16384, 32768}
PrgSizes == {16384, 32768}

\* the observation kept of a mapper access: the mapper as it was before,
\* the byte read, whether the access panicked, and the byte of the most
\* recent write to 0x8000-0xFFFF (0 when there was none)
MapperObs0 ==
    [ op |-> "none", steps |-> 0, address |-> 0, val |-> 0, ret |-> 0,
      panicked |-> FALSE, latest |-> 0,
      before |-> Mapper_new("NROM", 8192, 16384) ]

\* vmem holds the mapper of the cartridge
InitMapper ==
    /\ ppu = PPU_new
    /\ joypad1 = Joypad_new
    /\ cpu = CPU_new
    /\ status = "Stopped"
    /\ desk = Desk_new
    /\ core = Core_new
    /\ vmem \in { Mapper_new(kind, chr_len, prg_len) :
                    kind \in {"NROM", "CNROM"}, chr_len \in ChrSizes,
                    prg_len \in PrgSizes }
    /\ obs = MapperObs0

\* mapper.write(address, val)
MapperWrite(address, val) ==
    /\ obs.steps < MaxMapperOps
    /\ ~obs.panicked
    /\ \E r \in {Mapper_write(vmem, address, val)} :
       /\ vmem' = r.mapper
       /\ obs' = [ op |-> "write", steps |-> obs.steps + 1,
                   address |-> address, val |-> val, ret |-> 0,
                   panicked |-> r.panic,
                   latest |-> IF address >= 32768 THEN val ELSE obs.latest,
                   before |-> vmem ]
    /\ UNCHANGED <<ppu, joypad1, cpu, status, desk, core>>

\* mapper.read(address)
MapperRead(address) ==
    /\ obs.steps < MaxMapperOps
    /\ ~obs.panicked
    /\ \E r \in {Mapper_read(vmem, address)} :
       /\ obs' = [ op |-> "read", steps |-> obs.steps + 1,
                   address |-> address, val |-> 0, ret |-> r.ret,
                   panicked |-> r.panic, latest |-> obs.latest,
                   before |-> vmem ]
    /\ UNCHANGED <<ppu, joypad1, cpu, status, desk, core, vmem>>

NextMapper ==
    \/ \E address \in MapperAddrs, val \in MapperBytes :
          MapperWrite(address, val)
    \/ \E address \in MapperAddrs : MapperRead(address)

SpecMapper == InitMapper /\ [][NextMapper]_vars

(* C26: for a CNROM cartridge of any CHR size, after any sequence of       *)
(* writes, a CHR read at address a in 0x0000-0x1FFF returns the CHR byte   *)
(* at offset (b & 0x03) * 8192 | (a & 0x1FFF), b the byte of the most      *)
(* recent write to 0x8000-0xFFFF (bank 0 if there was none).               *)
C26_CnromBank ==
    (vmem.kind = "CNROM" /\ obs.op = "read" /\ obs.address <= 8191) =>
        LET offset == ((obs.latest % 4) * 8192) + (obs.address % 8192)
        IN /\ ~obs.panicked
           /\ obs.ret = Cell(vmem.chr_rom, offset, ChrByte(offset))

(* C27: NROM exposes CHR as read-only: a mapper write to an address in     *)
(* 0x0000-0x1FFF is silently ignored, it changes the value returned by no  *)
(* later CHR read.                                                         *)
C27_NromChrReadOnly ==
    (vmem.kind = "NROM" /\ obs.op = "write" /\ obs.address <= 8191) =>
        /\ ~obs.panicked
        /\ \A a \in 0..8191 :
              Mapper_read(vmem, a) = Mapper_read(obs.before, a)

(* C36: no sequence of mapper writes to any addresses (0x0000-0x1FFF and   *)
(* 0x6000-0x7FFF included) changes the byte later read at any address in   *)
(* the PRG-ROM window 0x8000-0xFFFF, for both NROM and CNROM: the read     *)
(* returns what it returns on the mapper as it was created.                *)
C36_PrgWindowFixed ==
    (obs.op = "read" /\ obs.address >= 32768) =>
        /\ ~obs.panicked
        /\ obs.ret = Mapper_read(Mapper_new(vmem.kind, vmem.chr_len,
                                            vmem.prg_len), obs.address).ret

(***************************************************************************)
(* The opcode table and the dispatcher of CPU::run: the entry an opcode    *)
(* byte has in the table, and the arm of the match its mnemonic selects.   *)
(***************************************************************************)
\* CPU_OPS_CODES through OPCODES_MAP: the mnemonic of opcode byte code is
\* element code + 1, row by row from 0x00; "none" where the table has no
\* entry
CPU_OPS_CODES ==
    << "BRK", "ORA", "JAM", "SLO", "NOP", "ORA", "ASL", "SLO", "PHP", "ORA", "ASL", "ANC", "NOP", "ORA", "ASL", "SLO",
           "BPL", "ORA", "JAM", "SLO", "NOP", "ORA", "ASL", "SLO", "CLC", "ORA", "NOP", "SLO", "NOP", "ORA", "ASL", "SLO",
           "JSR", "AND", "JAM", "RLA", "BIT", "AND", "ROL", "RLA", "PLP", "AND", "ROL", "ANC", "BIT", "AND", "ROL", "RLA",
           "BMI", "AND", "JAM", "RLA", "NOP", "AND", "ROL", "RLA", "SEC", "AND", "NOP", "RLA", "NOP", "AND", "ROL", "RLA",
           "RTI", "EOR", "JAM", "SRE", "NOP", "EOR", "LSR", "SRE", "PHA", "EOR", "LSR", "ALR", "JMP", "EOR", "LSR", "SRE",
           "BVC", "EOR", "JAM", "SRE", "NOP", "EOR", "LSR", "SRE", "CLI", "EOR", "NOP", "SRE", "NOP", "EOR", "LSR", "SRE",
           "RTS", "ADC", "JAM", "RRA", "NOP", "ADC", "ROR", "RRA", "PLA", "ADC", "ROR", "ARR", "JMP", "ADC", "ROR", "RRA",
           "BVS", "ADC", "JAM", "RRA", "NOP", "ADC", "ROR", "RRA", "SEI", "ADC", "NOP", "RRA", "NOP", "ADC", "ROR", "RRA",
           "NOP", "STA", "NOP", "SAX", "STY", "STA", "STX", "SAX", "DEY", "NOP", "TXA", "XAA", "STY", "STA", "STX", "SAX",
           "BCC", "STA", "JAM", "AHX", "STY", "STA", "STX", "SAX", "TYA", "STA", "TXS", "TAS", "SHY", "STA", "SHX", "AHX",
           "LDY", "LDA", "LDX", "LAX", "LDY", "LDA", "LDX", "LAX", "TAY", "LDA", "TAX", "LAX", "LDY", "LDA", "LDX", "LAX",
           "BCS", "LDA", "JAM", "LAX", "LDY", "LDA", "LDX", "LAX", "CLV", "LDA", "TSX", "LAS", "LDY", "LDA", "LDX", "LAX",
           "CPY", "CMP", "NOP", "DCP", "CPY", "CMP", "DEC", "DCP", "INY", "CMP", "DEX", "AXS", "CPY", "CMP", "DEC", "DCP",
           "BNE", "CMP", "JAM", "DCP", "NOP", "CMP", "DEC", "DCP", "CLD", "CMP", "NOP", "DCP", "NOP", "CMP", "DEC", "DCP",
           "CPX", "SBC", "NOP", "ISB", "CPX", "SBC", "INC", "ISB", "INX", "SBC", "NOP", "SBC", "CPX", "SBC", "INC", "ISB",
           "BEQ", "SBC", "JAM", "ISB", "NOP", "SBC", "INC", "ISB", "SED", "SBC", "NOP", "ISB", "NOP", "SBC", "INC", "ISB" >>

\* the mnemonics that have an arm in the match on opcode.mnemonic; every
\* other mnemonic takes the arm _ => todo!()
RunArms ==
    { "ADC", "AND", "ASL", "BCC", "BCS", "BEQ", "BNE", "BMI", "BPL", "BVC",
      "BVS", "BIT", "BRK", "CLC", "CLD", "CLI", "CLV", "CMP", "CPX", "CPY",
      "DEC", "DEX", "DEY", "EOR", "INC", "INX", "INY", "JMP", "JSR", "LDA",
      "LDX", "LDY", "LSR", "NOP", "ORA", "PHA", "PHP", "PLA", "PLP", "ROL",
      "ROR", "RTI", "RTS", "SBC", "SEC", "SED", "SEI", "STA", "STX", "STY",
      "TAX", "TAY", "TSX", "TXA", "TXS", "TYA", "ALR", "ARR", "ANC", "AXS",
      "LAS", "LAX", "SAX", "DCP", "ISB", "SLO", "RLA", "SHX", "SHY", "SRE",
      "RRA" }

\* CPU::run from the fetch to the arm selected: unrecognized (the panic of
\* the table lookup), todo (the arm _ => todo!()), or dispatched
run_arm(code) ==
    LET mnemonic == CPU_OPS_CODES[code + 1]
    IN IF mnemonic = "none" THEN "unrecognized"
       ELSE IF mnemonic \in RunArms THEN "dispatched"
       ELSE "todo"

\* steps followed
MaxDecodeSteps == 1

DecodeObs0 == [ op |-> "none", steps |-> 0, code |-> 0, arm |-> "none" ]

InitDecode ==
    /\ ppu = PPU_new
    /\ joypad1 = Joypad_new
    /\ cpu = CPU_new
    /\ status = "Stopped"
    /\ desk = Desk_new
    /\ core = Core_new
    /\ vmem = VMem_new
    /\ obs = DecodeObs0

\* CPU::run with opcode byte code at PC, followed to the arm selected (what
\* the arm then does to the registers is dispatch, above)
DecodeRun(code) ==
    /\ obs.steps < MaxDecodeSteps
    /\ obs' = [ op |-> "run", steps |-> obs.steps + 1, code |-> code,
                arm |-> run_arm(code) ]
    /\ UNCHANGED <<ppu, joypad1, cpu, status, desk, core, vmem>>

NextDecode == \E code \in Bytes : DecodeRun(code)

SpecDecode == InitDecode /\ [][NextDecode]_vars

(* C28: every opcode byte that has an entry in the opcode table (official  *)
(* opcodes and the listed undocumented ones, XAA, TAS, AHX, LAS, SHX and   *)
(* SHY included) is dispatched to an implementation; no table entry        *)
(* reaches the not-implemented arm of the dispatcher.                      *)
C28_EveryEntryDispatched ==
    (obs.op = "run" /\ CPU_OPS_CODES[obs.code + 1] # "none") =>
        obs.arm = "dispatched"

(***************************************************************************)
(* Two runs from power-on with the same ROM and the same inputs.  The      *)
(* first run is followed until its first frame; the NES is then dropped    *)
(* and built anew, and the second run is given the inputs of the first at  *)
(* the same steps.  The ROM is the instructions the CPU executes: a choice *)
(* on the first TwinWindow steps, NOPs from then on.                       *)
(***************************************************************************)
\* NES::load_rom_bytes on the NES already in use: start_emulation resets
\* the CPU registers, the cycle counter, the PPU and the joypad are kept
NES_load_rom_bytes(nes) ==
    [ ppu |-> nes.ppu, joypad1 |-> nes.joypad1, cpu |-> nes.cpu,
      status |-> "Running" ]

\* power-on: NES::new, then NES::load_rom_bytes; nothing of the NES that
\* was there before is kept
NES_power_on(nes) ==
    [ ppu |-> PPU_new, joypad1 |-> Joypad_new, cpu |-> CPU_new,
      status |-> "Running" ]

\* the steps of the first run on which the input is chosen
TwinWindow == 2

\* an input of a step: NES::emulate_frame with the instruction the ROM has
\* at the program counter, or NES::button_pressed
TwinInputs ==
    { [kind |-> "emulate_frame", instr |-> instr, button |-> 0] :
        instr \in Instructions }
    \cup { [kind |-> "button_pressed", instr |-> instr, button |-> 0] :
             instr \in {i \in Instructions : i.mnemonic = "NOP"} }

\* the NOP of the instruction set
TwinIdleInstructions == {instr \in Instructions : instr.mnemonic = "NOP"}

\* the input when none is chosen: emulate_frame on a NOP
TwinIdle == {input \in TwinInputs : /\ input.kind = "emulate_frame"
                                    /\ input.instr.mnemonic = "NOP"}

\* the step an input makes: the new PPU, joypad and CPU, and whether the
\* call returned a frame
TwinApply(p, j, c, input) ==
    IF input.kind = "button_pressed"
    THEN [ppu |-> p,
          joypad1 |-> Joypad_set_button_pressed_status(j, input.button, TRUE),
          cpu |-> c, frame |-> FALSE]
    ELSE CHOOSE out \in
            { [ppu |-> r.ppu, joypad1 |-> j, cpu |-> r.cpu,
               frame |-> r.frame] :
                r \in {NES_emulate_frame(c.cycles, p, input.instr)} } : TRUE

\* the observation kept of the two runs
\*   run, k     the run under way (1 or 2) and the steps it has made
\*   frame      the last step returned a frame
\*   inputs     the inputs chosen in the first run, in order
\*   n          the steps of the first run, once it has ended
\*   log        the state the first run was in after its first TwinWindow
\*              steps and after its last, by step number
TwinObs0 ==
    [ op |-> "none", run |-> 1, k |-> 0, frame |-> FALSE, inputs |-> <<>>,
      n |-> 0, log |-> <<>> ]

InitTwin ==
    /\ \E nes \in {NES_power_on([ppu |-> PPU_new, joypad1 |-> Joypad_new,
                                 cpu |-> CPU_new, status |-> "Stopped"])} :
       /\ ppu = nes.ppu
       /\ joypad1 = nes.joypad1
       /\ cpu = nes.cpu
       /\ status = nes.status
    /\ desk = Desk_new
    /\ core = Core_new
    /\ vmem = VMem_new
    /\ obs = TwinObs0

\* a step of the first run
TwinFirst(input) ==
    /\ obs.run = 1
    /\ ~obs.frame
    /\ input \in (IF obs.k < TwinWindow THEN TwinInputs ELSE TwinIdle)
    /\ \E r \in {TwinApply(ppu, joypad1, cpu, input)} :
       /\ ppu' = r.ppu
       /\ joypad1' = r.joypad1
       /\ cpu' = r.cpu
       /\ obs' = [ op |-> "step", run |-> 1, k |-> obs.k + 1,
                   frame |-> r.frame,
                   inputs |-> IF obs.k < TwinWindow
                              THEN Append(obs.inputs, input) ELSE obs.inputs,
                   n |-> IF r.frame THEN obs.k + 1 ELSE 0,
                   log |-> IF obs.k < TwinWindow \/ r.frame
                           THEN Store(obs.log, obs.k + 1, r) ELSE obs.log ]
    /\ UNCHANGED <<status, desk, core, vmem>>

\* the first run has returned its frame: power-on for the second run
TwinPowerOn ==
    /\ obs.run = 1
    /\ obs.frame
    /\ \E nes \in {NES_power_on([ppu |-> ppu, joypad1 |-> joypad1,
                                 cpu |-> cpu, status |-> status])} :
       /\ ppu' = nes.ppu
       /\ joypad1' = nes.joypad1
       /\ cpu' = nes.cpu
       /\ status' = nes.status
    /\ obs' = [obs EXCEPT !.op = "power_on", !.run = 2, !.k = 0,
                          !.frame = FALSE]
    /\ UNCHANGED <<desk, core, vmem>>

\* a step of the second run, on the input the first run had at this step
TwinSecond ==
    /\ obs.run = 2
    /\ obs.k < obs.n
    /\ \E input \in (IF obs.k < Len(obs.inputs)
                     THEN {obs.inputs[obs.k + 1]} ELSE TwinIdle) :
       \E r \in {TwinApply(ppu, joypad1, cpu, input)} :
          /\ ppu' = r.ppu
          /\ joypad1' = r.joypad1
          /\ cpu' = r.cpu
          /\ obs' = [obs EXCEPT !.op = "step", !.k = @ + 1,
                                !.frame = r.frame]
    /\ UNCHANGED <<status, desk, core, vmem>>

NextTwin ==
    \/ \E input \in TwinInputs : TwinFirst(input)
    \/ TwinPowerOn
    \/ TwinSecond

SpecTwin == InitTwin /\ [][NextTwin]_vars

LAST_VISIBLE == 239

\* MaskRegister::leftmost_8pxl_background, leftmost_8pxl_sprite
leftmost_8pxl_background(mask) == TestBit(mask, 1)
leftmost_8pxl_sprite(mask) == TestBit(mask, 2)

\* StatusRegister::set_sprite_zero_hit: the flag takes the value given
set_sprite_zero_hit(st, value) == [st EXCEPT !.sprite_zero_hit = value]

\* render_background can deliver a pixel other than 0 on this dot
BackgroundShown(p) ==
    show_background(p.mask)
        /\ (p.cycle >= 8 \/ leftmost_8pxl_background(p.mask))

\* render_foreground looks at the sprites of the scanline on this dot
SpritesShown(p) ==
    show_sprites(p.mask) /\ (p.cycle >= 8 \/ leftmost_8pxl_sprite(p.mask))

\* PPU::render_pixel on the status register, px being what
\* render_background and render_foreground returned
render_pixel(p, st, px) ==
    IF px.bg_pixel > 0 /\ px.fg_pixel > 0
           /\ rendering_enabled(p.mask) /\ p.cycle # 255
    THEN set_sprite_zero_hit(st, px.is_sprite_0)
    ELSE st

\* the arms of PPU::tick that touch the flag
TickHit(p, st, px) ==
    IF p.cycle = 0 THEN st
    ELSE IF p.scanline = PRE_RENDER /\ p.cycle = 1
        THEN set_sprite_zero_hit(st, FALSE)
    ELSE IF p.scanline <= LAST_VISIBLE /\ p.cycle <= 256
        THEN render_pixel(p, st, px)
    ELSE st

\* frames followed
MaxHitFrames == 1
\* PPUMASK writes made
MaxHitWrites == 1

\* PPUMASK values written: background and sprites on, with and without
\* the leftmost eight pixels
HitMasks == {24, 30}

\* <<scanline, dot>> on which the pixels are chosen
HitDots == { <<0, 4>>, <<0, 10>>, <<0, 255>>, <<1, 10>>, <<120, 100>> }

\* what render_background and render_foreground can return on the dot
HitPixels(p) ==
    { [bg_pixel |-> bg, fg_pixel |-> fg, is_sprite_0 |-> z] :
        bg \in IF BackgroundShown(p) THEN {0, 1} ELSE {0},
        fg \in IF SpritesShown(p) THEN {0, 3} ELSE {0},
        z \in IF SpritesShown(p) THEN BOOLEAN ELSE {FALSE} }

\* both pixels transparent
NoPixel == [bg_pixel |-> 0, fg_pixel |-> 0, is_sprite_0 |-> FALSE]

\* every pixel input there is
AllPixels ==
    { [bg_pixel |-> bg, fg_pixel |-> fg, is_sprite_0 |-> z] :
        bg \in {0, 1}, fg \in {0, 3}, z \in BOOLEAN }

\*   op       "none" | "write" | "tick"
\*   writes   PPUMASK writes made
\*   px       the pixels of the last tick
\*   at       <<scanline, dot>> the last tick worked on
\*   before   the flag before the last tick
HitObs0 ==
    [ op |-> "none", writes |-> 0, px |-> NoPixel, at |-> <<0, 0>>,
      before |-> FALSE ]

InitHit ==
    /\ ppu = PPU_new
    /\ vmem = [sprite_zero_hit |-> FALSE]
    /\ joypad1 = Joypad_new
    /\ cpu = CPU_new
    /\ status = "Running"
    /\ desk = Desk_new
    /\ core = Core_new
    /\ obs = HitObs0

\* a write of PPUMASK, before the first dot of the frame
HitMaskWrite(data) ==
    /\ obs.writes < MaxHitWrites
    /\ ppu.scanline = 0 /\ ppu.cycle = 0
    /\ ppu.frame_count < MaxHitFrames
    /\ ppu' = PPU_cpu_write_mask(ppu, data)
    /\ obs' = [obs EXCEPT !.op = "write", !.writes = @ + 1]
    /\ UNCHANGED <<joypad1, cpu, status, desk, core, vmem>>

\* PPU::tick
HitTick(px) ==
    /\ ppu.frame_count < MaxHitFrames
    /\ px \in (IF <<ppu.scanline, ppu.cycle>> \in HitDots
               THEN HitPixels(ppu) ELSE {NoPixel})
    /\ vmem' = TickHit(ppu, vmem, px)
    /\ \E r \in {PPU_tick(ppu)} : ppu' = r.ppu
    /\ obs' = [obs EXCEPT !.op = "tick", !.px = px,
                          !.at = <<ppu.scanline, ppu.cycle>>,
                          !.before = vmem.sprite_zero_hit]
    /\ UNCHANGED <<joypad1, cpu, status, desk, core>>

NextHit ==
    \/ \E data \in HitMasks : HitMaskWrite(data)
    \/ \E px \in AllPixels : HitTick(px)

SpecHit == InitHit /\ [][NextHit]_vars

(* C30: once the sprite-zero-hit flag has been set during a frame it stays *)
(* set until dot 1 of the pre-render scanline (261): a tick on any other   *)
(* dot that finds the flag set leaves it set, also when a sprite other     *)
(* than sprite 0 overlaps an opaque background pixel on that dot.          *)
C30_HitStaysSet ==
    (obs.op = "tick" /\ obs.before /\ obs.at # <<PRE_RENDER, 1>>) =>
        vmem.sprite_zero_hit

(***************************************************************************)
(* The write toggle w under PPUSCROLL and PPUADDR writes and PPUSTATUS     *)
(* reads, in any order.                                                    *)
(***************************************************************************)
\* port accesses followed
MaxToggleOps == 4

\* the bytes written
ToggleBytes == {0, 63, 85, 255}

\* what is kept of an access: the port, the byte written, and w, t and v
\* before it
ToggleNone == [reg |-> 0, data |-> 0, w |-> FALSE, t |-> 0, v |-> 0]

\*   steps   accesses made
\*   last    the last access
\*   prev    the access before the last
ToggleObs0 == [ steps |-> 0, last |-> ToggleNone, prev |-> ToggleNone ]

InitToggle ==
    /\ ppu = PPU_new
    /\ joypad1 = Joypad_new
    /\ cpu = CPU_new
    /\ status = "Stopped"
    /\ desk = Desk_new
    /\ core = Core_new
    /\ vmem = VMem_new
    /\ obs = ToggleObs0

\* Bus::mem_write to PPUSCROLL or PPUADDR
ToggleWrite(reg, data) ==
    /\ obs.steps < MaxToggleOps
    /\ \E r \in {PPU_cpu_write(ppu, vmem, reg, data)} :
       /\ ppu' = r.ppu
       /\ vmem' = r.vmem
    /\ obs' = [ steps |-> obs.steps + 1,
                last |-> [reg |-> reg, data |-> data, w |-> ppu.w,
                          t |-> vmem.t, v |-> vmem.v],
                prev |-> obs.last ]
    /\ UNCHANGED <<joypad1, cpu, status, desk, core>>

\* Bus::mem_read(0x2002)
ToggleStatusRead ==
    /\ obs.steps < MaxToggleOps
    /\ \E r \in {PPU_cpu_read(ppu, vmem, PPUSTATUS)} :
       /\ ppu' = r.ppu
       /\ vmem' = r.vmem
    /\ obs' = [ steps |-> obs.steps + 1,
                last |-> [reg |-> PPUSTATUS, data |-> 0, w |-> ppu.w,
                          t |-> vmem.t, v |-> vmem.v],
                prev |-> obs.last ]
    /\ UNCHANGED <<joypad1, cpu, status, desk, core>>

NextToggle ==
    \/ \E reg \in {PPUSCROLL, PPUADDR}, data \in ToggleBytes :
          ToggleWrite(reg, data)
    \/ ToggleStatusRead

SpecToggle == InitToggle /\ [][NextToggle]_vars

\* the write just made was treated as a first write
TreatedAsFirst ==
    /\ ppu.w
    /\ vmem.v = obs.last.v
    /\ obs.last.reg = PPUADDR =>
           vmem.t = (obs.last.t % 256) + (obs.last.data % 64) * 256
    /\ obs.last.reg = PPUSCROLL =>
           /\ vmem.t = ((obs.last.t \div 32) * 32) + (obs.last.data \div 8)
           /\ vmem.fine_x = obs.last.data % 8

(* C31: PPUSCROLL and PPUADDR share one write toggle w.  Starting from     *)
(* w = 0, writing hi then lo to PPUADDR leaves                             *)
(* t = v = ((hi & 0x3F) << 8) | lo and w = 0; a first write to either port *)
(* makes the next write to the other a second write; and after a PPUSTATUS *)
(* read, also one made between the two writes, the next write is treated   *)
(* as a first write.                                                       *)
C31_SharedToggle ==
    /\ (obs.last.reg = PPUADDR /\ obs.prev.reg = PPUADDR /\ ~obs.prev.w) =>
          /\ vmem.t = (obs.prev.data % 64) * 256 + obs.last.data
          /\ vmem.v = vmem.t
          /\ ~ppu.w
    /\ (obs.last.reg \in {PPUSCROLL, PPUADDR}
          /\ obs.prev.reg \in {PPUSCROLL, PPUADDR} /\ ~obs.prev.w) =>
          (obs.last.w /\ ~ppu.w)
    /\ (obs.last.reg \in {PPUSCROLL, PPUADDR} /\ obs.prev.reg = PPUSTATUS) =>
          (~obs.last.w /\ TreatedAsFirst)

\* hi 0xFF and lo 0x55 written to PPUADDR with a PPUSTATUS read in between:
\* the second write was a first write again
C31_Witness ==
    /\ obs.steps = 3
    /\ obs.last.reg = PPUADDR /\ obs.last.data = 85
    /\ obs.prev.reg = PPUSTATUS /\ obs.prev.w
    /\ obs.prev.t = 63 * 256
    /\ ppu.w
    /\ vmem.t = 21 * 256 /\ vmem.v = 0

(***************************************************************************)
(* PPUDATA accesses and what they do to v, with rendering on or off and    *)
(* the PPU inside or outside the rendered scanlines.                       *)
(***************************************************************************)
\* port accesses followed
MaxDataOps == 4

\* bytes written to PPUCTRL (increment 1 or 32), PPUMASK (background off
\* or on) and PPUADDR
DataCtrls == {0, 4}
DataMasks == {0, 8}
DataAddrs == {0, 35, 63}

\* the dots the PPU is on: power-on, a visible scanline, vertical blank
\* and the pre-render scanline
DataDots == { <<0, 0>>, <<100, 254>>, <<245, 10>>, <<261, 256>> }

\*   op      "none" | "write" | "ppudata_write" | "ppudata_read"
\*   steps   accesses made
\*   v       v before the last access
DataObs0 == [ op |-> "none", steps |-> 0, v |-> 0 ]

InitData ==
    /\ ppu \in { [PPU_new EXCEPT !.scanline = d[1], !.cycle = d[2]] :
                   d \in DataDots }
    /\ joypad1 = Joypad_new
    /\ cpu = CPU_new
    /\ status = "Stopped"
    /\ desk = Desk_new
    /\ core = Core_new
    /\ vmem = VMem_new
    /\ obs = DataObs0

\* Bus::mem_write to PPUCTRL, PPUMASK or PPUADDR
DataPortWrite(reg, data) ==
    /\ obs.steps < MaxDataOps
    /\ data \in (IF reg = PPUCTRL THEN DataCtrls
                 ELSE IF reg = PPUMASK THEN DataMasks ELSE DataAddrs)
    /\ \E r \in {PPU_cpu_write(ppu, vmem, reg, data)} :
       /\ ppu' = r.ppu
       /\ vmem' = r.vmem
    /\ obs' = [op |-> "write", steps |-> obs.steps + 1, v |-> vmem.v]
    /\ UNCHANGED <<joypad1, cpu, status, desk, core>>

\* Bus::mem_write(0x2007, data) (a write that stops the program is not
\* followed)
DataWrite(data) ==
    /\ obs.steps < MaxDataOps
    /\ ~PPU_mem_panics(vmem, vmem.v % 16384, TRUE)
    /\ \E r \in {PPU_cpu_write(ppu, vmem, PPUDATA, data)} :
       /\ ppu' = r.ppu
       /\ vmem' = r.vmem
    /\ obs' = [op |-> "ppudata_write", steps |-> obs.steps + 1, v |-> vmem.v]
    /\ UNCHANGED <<joypad1, cpu, status, desk, core>>

\* Bus::mem_read(0x2007)
DataRead ==
    /\ obs.steps < MaxDataOps
    /\ ~PPU_mem_panics(vmem, vmem.v % 16384, FALSE)
    /\ \E r \in {PPU_cpu_read(ppu, vmem, PPUDATA)} :
       /\ ppu' = r.ppu
       /\ vmem' = r.vmem
    /\ obs' = [op |-> "ppudata_read", steps |-> obs.steps + 1, v |-> vmem.v]
    /\ UNCHANGED <<joypad1, cpu, status, desk, core>>

NextData ==
    \/ \E reg \in {PPUCTRL, PPUMASK, PPUADDR},
          data \in DataCtrls \cup DataMasks \cup DataAddrs :
          DataPortWrite(reg, data)
    \/ \E data \in VramDataBytes : DataWrite(data)
    \/ DataRead

SpecData == InitData /\ [][NextData]_vars

(* C32: every CPU read or write of PPUDATA post-increments v by 1 or by 32 *)
(* according to the PPUCTRL increment bit, in every PPU state, also while  *)
(* rendering is in progress.                                               *)
C32_PostIncrement ==
    obs.op \in {"ppudata_write", "ppudata_read"} =>
        vmem.v = (obs.v + vram_addr_increment(ppu.ctrl)) % 65536

(***************************************************************************)
(* Sprite evaluation at dot 257 of a visible scanline.  vmem holds the     *)
(* primary OAM, the secondary OAM and the sprite-overflow flag.            *)
(***************************************************************************)
\* ControlRegister::sprite_size: bit 5 of PPUCTRL, 8x16 or 8x8
sprite_size(ctrl) == IF TestBit(ctrl, 5) THEN 16 ELSE 8

\* StatusRegister::set_sprite_overflow
set_sprite_overflow(m, value) == [m EXCEPT !.sprite_overflow = value]

\* Sprite::from(oam_entry, is_sprite_0)
Sprite_from(oam_data, n, is_sprite_0) ==
    [ y |-> oam_data[4 * n], tile |-> oam_data[4 * n + 1],
      attr |-> oam_data[4 * n + 2], x |-> oam_data[4 * n + 3],
      is_sprite_0 |-> is_sprite_0 ]

\* the loop of PPU::sprite_evaluation from entry n on; st holds the
\* secondary OAM and the overflow flag
RECURSIVE sprite_scan(_, _, _)
sprite_scan(p, n, st) ==
    IF n = 64 THEN st
    ELSE LET next_scanline == p.scanline + 1
             sprite_y == st.oam_data[4 * n] + 1
             diff == next_scanline - sprite_y
         IN IF diff >= 0 /\ diff < sprite_size(p.ctrl)
            THEN IF Len(st.secondary_oam_data) >= 8
                 THEN set_sprite_overflow(st, TRUE)
                 ELSE CHOOSE out \in
                        { sprite_scan(p, n + 1, s1) :
                            s1 \in {[st EXCEPT !.secondary_oam_data =
                                       Append(@, Sprite_from(st.oam_data, n,
                                                             n = 0))]} } :
                        TRUE
            ELSE sprite_scan(p, n + 1, st)

\* an evaluation that does not clear the secondary OAM first
sprite_evaluation_NoClear(p, m) ==
    IF rendering_enabled(p.mask) THEN sprite_scan(p, 0, m) ELSE m

\* PPU::sprite_evaluation
sprite_evaluation(p, m) ==
    IF rendering_enabled(p.mask)
    THEN sprite_scan(p, 0, [m EXCEPT !.secondary_oam_data = <<>>])
    ELSE m

\* sets of primary-OAM entries placed on the next scanline: none, seven,
\* eight, nine and all of them from entry 0 on, the last eight and the
\* last nine, eight spread over the table, thirteen spread over it
SpriteSets ==
    { {}, 0..6, 0..7, 0..8, 0..63, 56..63, 55..63,
      {9 * k : k \in 0..7}, {5 * k : k \in 0..12}, {3}, 1..8 }

\* how far above the next scanline the placed entries begin
SpriteRows == {0, 7, 8, 15}

\* the scanlines evaluated
SpriteScanlines == {20, 238}

\* PPUCTRL and PPUMASK values: 8x8 and 8x16 sprites, rendering off and on
SpriteCtrls == {0, 32}
SpriteMasks == {0, 24}

\* an OAM with the entries of set placed row lines above the line after
\* scanline, and every other entry off the screen
SpriteOam(set, scanline, row) ==
    [ i \in 0..255 |->
        IF i % 4 = 0
        THEN IF (i \div 4) \in set THEN scanline - row ELSE OAM_RESET
        ELSE IF i % 4 = 2 THEN 0 ELSE i \div 4 ]

\* what the secondary OAM holds from the scanline before
StaleSprites == { <<>>, <<[y |-> 1, tile |-> 77, attr |-> 0, x |-> 9,
                          is_sprite_0 |-> FALSE]>> }

\* OAMADDR / OAMDATA writes followed
MaxSpriteWrites == 2

\*   op       "none" | "oamaddr" | "oamdata" | "sprite_evaluation"
\*   writes   OAM port writes made
\*   before   vmem before the evaluation
SpriteObs0 == [ op |-> "none", writes |-> 0, before |-> <<>> ]

InitSprites ==
    /\ ppu \in { [PPU_new EXCEPT !.scanline = sl, !.cycle = 257,
                                 !.ctrl = c, !.mask = k] :
                   sl \in SpriteScanlines, c \in SpriteCtrls,
                   k \in SpriteMasks }
    /\ vmem \in { [ oam_data |-> SpriteOam(set, ppu.scanline, row),
                    oam_addr |-> 0,
                    secondary_oam_data |-> stale,
                    sprite_overflow |-> FALSE ] :
                    set \in SpriteSets, row \in SpriteRows,
                    stale \in StaleSprites }
    /\ joypad1 = Joypad_new
    /\ cpu = CPU_new
    /\ status = "Stopped"
    /\ desk = Desk_new
    /\ core = Core_new
    /\ obs = SpriteObs0

\* Bus::mem_write to OAMADDR or OAMDATA before the evaluation
SpriteOamWrite(reg, data) ==
    /\ obs.op # "sprite_evaluation"
    /\ obs.writes < MaxSpriteWrites
    /\ \E r \in {PPU_cpu_write(ppu, vmem, reg, data)} :
       /\ ppu' = r.ppu
       /\ vmem' = r.vmem
    /\ obs' = [obs EXCEPT !.op = IF reg = OAMADDR THEN "oamaddr"
                                 ELSE "oamdata",
                          !.writes = @ + 1]
    /\ UNCHANGED <<joypad1, cpu, status, desk, core>>

\* PPU::tick on dot 257 of a visible scanline
SpriteEvaluation ==
    /\ obs.op # "sprite_evaluation"
    /\ ppu.scanline <= LAST_VISIBLE /\ ppu.cycle = 257
    /\ vmem' = sprite_evaluation(ppu, vmem)
    /\ \E r \in {PPU_tick(ppu)} : ppu' = r.ppu
    /\ obs' = [obs EXCEPT !.op = "sprite_evaluation", !.before = vmem]
    /\ UNCHANGED <<joypad1, cpu, status, desk, core>>

NextSprites ==
    \/ \E reg \in {OAMADDR, OAMDATA}, data \in {32, 237} :
          SpriteOamWrite(reg, data)
    \/ SpriteEvaluation

SpecSprites == InitSprites /\ [][NextSprites]_vars

\* entry n of the OAM covers the scanline after the one evaluated
Covers(oam_data, n, scanline, ctrl) ==
    /\ oam_data[4 * n] + 1 <= scanline + 1
    /\ scanline + 1 < oam_data[4 * n] + 1 + sprite_size(ctrl)

\* the entries that cover it, in index order
Covering(oam_data, scanline, ctrl) ==
    {n \in 0..63 : Covers(oam_data, n, scanline, ctrl)}

\* the secondary OAM holds the first entries of the covering ones, in
\* index order and at most 8, as copies tagged with "is entry 0"
FirstCovering(sec, oam_data, set) ==
    /\ Len(sec) = Min(8, Cardinality(set))
    /\ \A i \in 1..Len(sec) :
          \E n \in set :
             /\ Cardinality({k \in set : k < n}) = i - 1
             /\ sec[i] = Sprite_from(oam_data, n, n = 0)

render_background(p, m) ==
    IF BackgroundShown(p)
    THEN (IF TestBit(m.bg_shifter_pattern_hi, 15 - m.fine_x) THEN 2 ELSE 0)
         + (IF TestBit(m.bg_shifter_pattern_lo, 15 - m.fine_x) THEN 1 ELSE 0)
    ELSE 0

\* the pixel of sprite i of the scanline: the top bits of its shifters
SpritePixel(m, i) ==
    (IF TestBit(m.sprite_shifter_pattern_hi[i], 7) THEN 2 ELSE 0)
    + (IF TestBit(m.sprite_shifter_pattern_lo[i], 7) THEN 1 ELSE 0)

\* the loop of PPU::render_foreground from sprite i on, fg being the pixel
\* found so far
RECURSIVE foreground_scan(_, _, _)
foreground_scan(m, i, fg) ==
    IF i > Len(m.secondary_oam_data) THEN fg
    ELSE IF m.secondary_oam_data[i].x = 0
         THEN IF SpritePixel(m, i) # 0 THEN SpritePixel(m, i)
              ELSE foreground_scan(m, i + 1, SpritePixel(m, i))
         ELSE foreground_scan(m, i + 1, fg)

\* PPU::render_foreground: fg_pixel
render_foreground(p, m) ==
    IF SpritesShown(p) THEN foreground_scan(m, 1, 0) ELSE 0

\* the last dot followed
MaxLeftDot == 12
\* PPUMASK writes made
MaxLeftWrites == 1

\* PPUMASK values: both layers on, with each combination of the two
\* leftmost-8-pixel bits
LeftMasks == {24, 26, 28, 30}

\* a sprite of the scanline with the x counter given
LeftSprite(x) ==
    [y |-> 0, tile |-> 0, attr |-> 0, x |-> x, is_sprite_0 |-> FALSE]

\* contents of the shifters and the secondary OAM
LeftPipelines ==
    { [ fine_x |-> fx,
        bg_shifter_pattern_lo |-> lo, bg_shifter_pattern_hi |-> 0,
        secondary_oam_data |-> <<LeftSprite(x), LeftSprite(0)>>,
        sprite_shifter_pattern_lo |-> <<128, 0>>,
        sprite_shifter_pattern_hi |-> <<0, hi>> ] :
        fx \in {0, 7}, lo \in {0, 32768 + 256}, x \in {0, 5},
        hi \in {0, 128} }

\*   op         "none" | "write" | "tick"
\*   writes     PPUMASK writes made
\*   at         <<scanline, dot>> the last tick worked on
\*   bg_pixel   what render_background returned on that dot
\*   fg_pixel   what render_foreground returned on that dot
LeftObs0 ==
    [ op |-> "none", writes |-> 0, at |-> <<0, 0>>, bg_pixel |-> 0,
      fg_pixel |-> 0 ]

InitLeft ==
    /\ ppu = PPU_new
    /\ vmem \in LeftPipelines
    /\ joypad1 = Joypad_new
    /\ cpu = CPU_new
    /\ status = "Running"
    /\ desk = Desk_new
    /\ core = Core_new
    /\ obs = LeftObs0

\* a write of PPUMASK before the first dot
LeftMaskWrite(data) ==
    /\ obs.writes < MaxLeftWrites
    /\ ppu.cycle = 0
    /\ ppu' = PPU_cpu_write_mask(ppu, data)
    /\ obs' = [obs EXCEPT !.op = "write", !.writes = @ + 1]
    /\ UNCHANGED <<joypad1, cpu, status, desk, core, vmem>>

\* PPU::tick on a dot of the first visible scanline; pipe is what the
\* shifters hold on the next dot
LeftTick(pipe) ==
    /\ ppu.scanline = 0 /\ ppu.cycle < MaxLeftDot
    /\ obs' = [obs EXCEPT !.op = "tick",
                          !.at = <<ppu.scanline, ppu.cycle>>,
                          !.bg_pixel = IF ppu.cycle >= 1
                                       THEN render_background(ppu, vmem)
                                       ELSE 0,
                          !.fg_pixel = IF ppu.cycle >= 1
                                       THEN render_foreground(ppu, vmem)
                                       ELSE 0]
    /\ \E r \in {PPU_tick(ppu)} : ppu' = r.ppu
    /\ vmem' = pipe
    /\ UNCHANGED <<joypad1, cpu, status, desk, core>>

NextLeft ==
    \/ \E data \in LeftMasks : LeftMaskWrite(data)
    \/ \E pipe \in LeftPipelines : LeftTick(pipe)

SpecLeft == InitLeft /\ [][NextLeft]_vars

(* C34: the leftmost-8-pixel mask is applied on every dot below 9 (dots 1  *)
(* to 8, screen x 0 to 7): when the leftmost-enable bit of the background  *)
(* (or of the sprites) is clear, that layer's pixel is transparent on all  *)
(* eight of those dots.                                                    *)
C34_LeftmostEight ==
    (obs.op = "tick" /\ obs.at[2] >= 1 /\ obs.at[2] < 9) =>
        /\ ~leftmost_8pxl_background(ppu.mask) => obs.bg_pixel = 0
        /\ ~leftmost_8pxl_sprite(ppu.mask) => obs.fg_pixel = 0

(***************************************************************************)
(* The vertical increment of v at dot 256, for v with fine Y, coarse Y and *)
(* the vertical nametable bit at and around their wrapping values.         *)
(***************************************************************************)
\* the fields of v (bits 12-14, 5-9 and 11)
FineY(x) == (x \div 4096) % 8
CoarseY(x) == (x \div 32) % 32
VerticalNametable(x) == TestBit(x, 11)

\* the values v has some dots before dot 256
IncYValues ==
    { fy * 4096 + nt * 2048 + cy * 32 + cx :
        fy \in {0, 6, 7}, nt \in {0, 1}, cy \in {0, 28, 29, 30, 31},
        cx \in {0, 31} }

\* the first and the last dot followed, and the scanlines
IncYFirstDot == 254
IncYLastDot == 258
IncYScanlines == {10, 239, 240, 261}

\*   op   "none" | "tick"
\*   at   <<scanline, dot>> the last tick worked on
\*   v    v before the last tick
IncYObs0 == [ op |-> "none", at |-> <<0, 0>>, v |-> 0 ]

InitIncY ==
    /\ ppu \in { [PPU_new EXCEPT !.scanline = sl, !.cycle = IncYFirstDot,
                                 !.mask = k] :
                   sl \in IncYScanlines, k \in {0, 8} }
    /\ vmem \in { [VMem_new EXCEPT !.v = x] : x \in IncYValues }
    /\ joypad1 = Joypad_new
    /\ cpu = CPU_new
    /\ status = "Running"
    /\ desk = Desk_new
    /\ core = Core_new
    /\ obs = IncYObs0

\* PPU::tick
IncYTick ==
    /\ ppu.cycle <= IncYLastDot /\ ppu.cycle >= IncYFirstDot
    /\ vmem' = TickScroll(ppu, vmem)
    /\ \E r \in {PPU_tick(ppu)} : ppu' = r.ppu
    /\ obs' = [op |-> "tick", at |-> <<ppu.scanline, ppu.cycle>>,
               v |-> vmem.v]
    /\ UNCHANGED <<joypad1, cpu, status, desk, core>>

NextIncY == IncYTick

SpecIncY == InitIncY /\ [][NextIncY]_vars

\* the last tick made the vertical increment and found fine Y = 7
IncYAtSeven ==
    /\ obs.op = "tick" /\ obs.at[2] = 256
    /\ obs.at[1] <= LAST_VISIBLE \/ obs.at[1] = PRE_RENDER
    /\ show_background(ppu.mask)
    /\ FineY(obs.v) = 7

(* C35: when the vertical increment at dot 256 finds fine Y = 7, fine Y    *)
(* resets to 0 and coarse Y advances; a coarse Y wrap toggles bit 11 of v, *)
(* except that at coarse Y = 29 it wraps to 0 without toggling bit 11.     *)
C35_WrapAt29Keeps ==
    IncYAtSeven =>
        /\ FineY(vmem.v) = 0
        /\ CoarseY(vmem.v) = (IF CoarseY(obs.v) = 29 THEN 0
                              ELSE (CoarseY(obs.v) + 1) % 32)
        /\ VerticalNametable(vmem.v) =
              (IF CoarseY(obs.v) = 31 THEN ~VerticalNametable(obs.v)
               ELSE VerticalNametable(obs.v))

(* C35, as the code has it: when the vertical increment at dot 256 finds   *)
(* fine Y = 7, fine Y resets to 0; coarse Y = 29 wraps to 0 and toggles    *)
(* bit 11 of v, coarse Y = 31 wraps to 0 without toggling it, and any      *)
(* other coarse Y advances by one with bit 11 kept.                        *)
C35_WrapAt29Toggles ==
    IncYAtSeven =>
        /\ FineY(vmem.v) = 0
        /\ CoarseY(vmem.v) = (IF CoarseY(obs.v) = 29 THEN 0
                              ELSE (CoarseY(obs.v) + 1) % 32)
        /\ VerticalNametable(vmem.v) =
              (IF CoarseY(obs.v) = 29 THEN ~VerticalNametable(obs.v)
               ELSE VerticalNametable(obs.v))

\* the increment found fine Y = 7 and coarse Y = 29 in the lower nametable
C35_Witness ==
    /\ IncYAtSeven
    /\ CoarseY(obs.v) = 29 /\ VerticalNametable(obs.v)
    /\ CoarseY(vmem.v) = 0 /\ FineY(vmem.v) = 0
    /\ ~VerticalNametable(vmem.v)

(***************************************************************************)
(* The colour index render_pixel looks up in the system palette, after     *)
(* PPUDATA writes into palette RAM.  The pixels and palettes that          *)
(* render_background and render_foreground deliver are inputs of the dot.  *)
(***************************************************************************)
\* the entries of palette::SYSTEM_PALETTE
SYSTEM_PALETTE_SIZE == 64

\* MaskRegister::is_grayscale
is_grayscale(mask) == TestBit(mask, 0)

\* PPU::fetch_color_from_palette
fetch_color_from_palette(m, palette, pixel) ==
    PPU_mem_read(m, 16128 + (palette * 4) + pixel)

\* PPU::render_pixel: the index into SYSTEM_PALETTE
render_pixel_color(p, m, px) ==
    LET front == IF px.bg_pixel = 0 /\ px.fg_pixel = 0 THEN "none"
                 ELSE IF px.bg_pixel = 0 THEN "fg"
                 ELSE IF px.fg_pixel = 0 THEN "bg"
                 ELSE IF px.fg_priority THEN "fg" ELSE "bg"
        pixel == IF front = "none" THEN 0
                 ELSE IF front = "fg" THEN px.fg_pixel ELSE px.bg_pixel
        palette == IF front = "none" THEN 0
                   ELSE IF front = "fg" THEN px.fg_palette ELSE px.bg_palette
        color == fetch_color_from_palette(m, palette, pixel)
    IN IF is_grayscale(p.mask) THEN BitAnd(color, 48) ELSE color

\* port writes and ticks followed
MaxColorWrites == 4
MaxColorTicks == 2

\* the bytes written to PPUADDR, PPUDATA and PPUMASK (rendering off and on,
\* greyscale off and on)
ColorAddrBytes == {0, 17, 63}
ColorDataBytes == {15, 63, 64, 255}
ColorMasks == {1, 30, 31}

\* what render_background and render_foreground can return on the dot;
\* sprite palettes are the upper four
ColorPixels(p) ==
    { [bg_pixel |-> bg, bg_palette |-> 0, fg_pixel |-> fg,
       fg_palette |-> 4, fg_priority |-> TRUE] :
        bg \in IF BackgroundShown(p) THEN {0, 1} ELSE {0},
        fg \in IF SpritesShown(p) THEN {0, 1} ELSE {0} }

AllColorPixels ==
    { [bg_pixel |-> bg, bg_palette |-> 0, fg_pixel |-> fg,
       fg_palette |-> 4, fg_priority |-> TRUE] : bg \in {0, 1}, fg \in {0, 1} }

\*   op         "none" | "write" | "ppudata" | "tick"
\*   writes     port writes made
\*   ticks      ticks made
\*   rendered   the last tick called render_pixel
\*   color      the index it used for SYSTEM_PALETTE
\*   panicked   the index was past the end of SYSTEM_PALETTE
ColorObs0 ==
    [ op |-> "none", writes |-> 0, ticks |-> 0, rendered |-> FALSE,
      color |-> 0, panicked |-> FALSE ]

InitColor ==
    /\ ppu = PPU_new
    /\ vmem = VMem_new
    /\ joypad1 = Joypad_new
    /\ cpu = CPU_new
    /\ status = "Running"
    /\ desk = Desk_new
    /\ core = Core_new
    /\ obs = ColorObs0

\* Bus::mem_write to PPUADDR or PPUMASK
ColorPortWrite(reg, data) ==
    /\ ~obs.panicked
    /\ obs.writes < MaxColorWrites
    /\ data \in (IF reg = PPUMASK THEN ColorMasks ELSE ColorAddrBytes)
    /\ \E r \in {PPU_cpu_write(ppu, vmem, reg, data)} :
       /\ ppu' = r.ppu
       /\ vmem' = r.vmem
    /\ obs' = [obs EXCEPT !.op = "write", !.writes = @ + 1,
                          !.rendered = FALSE]
    /\ UNCHANGED <<joypad1, cpu, status, desk, core>>

\* Bus::mem_write(0x2007, data) into palette RAM
ColorDataWrite(data) ==
    /\ ~obs.panicked
    /\ obs.writes < MaxColorWrites
    /\ vmem.v % 16384 >= 16128
    /\ \E r \in {PPU_cpu_write(ppu, vmem, PPUDATA, data)} :
       /\ ppu' = r.ppu
       /\ vmem' = r.vmem
    /\ obs' = [obs EXCEPT !.op = "ppudata", !.writes = @ + 1,
                          !.rendered = FALSE]
    /\ UNCHANGED <<joypad1, cpu, status, desk, core>>

\* PPU::tick; on dots 1 to 256 of a visible scanline it renders a pixel
ColorTick(px) ==
    /\ ~obs.panicked
    /\ obs.ticks < MaxColorTicks
    /\ px \in ColorPixels(ppu)
    /\ \E rendered \in {ppu.scanline <= LAST_VISIBLE /\ ppu.cycle >= 1
                          /\ ppu.cycle <= 256},
          color \in {render_pixel_color(ppu, vmem, px)} :
          obs' = [obs EXCEPT !.op = "tick", !.ticks = @ + 1,
                             !.rendered = rendered,
                             !.color = IF rendered THEN color ELSE 0,
                             !.panicked = rendered
                                            /\ color >= SYSTEM_PALETTE_SIZE]
    /\ vmem' = TickScroll(ppu, vmem)
    /\ \E r \in {PPU_tick(ppu)} : ppu' = r.ppu
    /\ UNCHANGED <<joypad1, cpu, status, desk, core>>

NextColor ==
    \/ \E reg \in {PPUADDR, PPUMASK}, data \in ColorAddrBytes \cup ColorMasks :
          ColorPortWrite(reg, data)
    \/ \E data \in ColorDataBytes : ColorDataWrite(data)
    \/ \E px \in AllColorPixels : ColorTick(px)

SpecColor == InitColor /\ [][NextColor]_vars

(* C37: every colour index used to look up the 64-entry system palette     *)
(* while rendering a pixel is below 64, whatever bytes the CPU has written *)
(* into palette RAM through PPUDATA and whether or not greyscale is on.    *)
C37_IndexBelow64 ==
    obs.rendered => obs.color < SYSTEM_PALETTE_SIZE

(***************************************************************************)
(* PPUCTRL writes and the NMI latch, in and out of vertical blank.         *)
(***************************************************************************)
\* port accesses, polls and ticks followed
MaxCtrlOps == 4

\* the bytes written to PPUCTRL: NMI-enable clear and set
CtrlBytes == {0, 4, 128, 132}

\* the PPU when the CPU begins: power-on; the dot that raises vblank; in
\* vertical blank; the dot before the one that clears vblank
CtrlStarts ==
    { PPU_new,
      [PPU_new EXCEPT !.scanline = VBLANK_SCANLINE, !.cycle = 1],
      [PPU_new EXCEPT !.scanline = VBLANK_SCANLINE, !.cycle = 2,
                      !.vblank = TRUE],
      [PPU_new EXCEPT !.scanline = PRE_RENDER, !.cycle = 0, !.vblank = TRUE] }

\*   op       "none" | "ctrl" | "status" | "poll" | "tick"
\*   steps    steps made
\*   before   the PPU before the last step
CtrlObs0 == [ op |-> "none", steps |-> 0, before |-> PPU_new ]

InitCtrl ==
    /\ ppu \in CtrlStarts
    /\ joypad1 = Joypad_new
    /\ cpu = CPU_new
    /\ status = "Running"
    /\ desk = Desk_new
    /\ core = Core_new
    /\ vmem = VMem_new
    /\ obs = CtrlObs0

\* Bus::mem_write(0x2000, data)
CtrlWrite(data) ==
    /\ obs.steps < MaxCtrlOps
    /\ \E r \in {PPU_cpu_write(ppu, vmem, PPUCTRL, data)} :
       /\ ppu' = r.ppu
       /\ vmem' = r.vmem
    /\ obs' = [op |-> "ctrl", steps |-> obs.steps + 1, before |-> ppu]
    /\ UNCHANGED <<joypad1, cpu, status, desk, core>>

\* Bus::mem_read(0x2002)
CtrlStatusRead ==
    /\ obs.steps < MaxCtrlOps
    /\ \E r \in {PPU_cpu_read(ppu, vmem, PPUSTATUS)} :
       /\ ppu' = r.ppu
       /\ vmem' = r.vmem
    /\ obs' = [op |-> "status", steps |-> obs.steps + 1, before |-> ppu]
    /\ UNCHANGED <<joypad1, cpu, status, desk, core>>

\* Bus::poll_nmi_status at the instruction boundary
CtrlPoll ==
    /\ obs.steps < MaxCtrlOps
    /\ ppu' = PPU_poll_nmi_interrupt(ppu).ppu
    /\ obs' = [op |-> "poll", steps |-> obs.steps + 1, before |-> ppu]
    /\ UNCHANGED <<joypad1, cpu, status, desk, core, vmem>>

\* PPU::tick
CtrlTick ==
    /\ obs.steps < MaxCtrlOps
    /\ \E r \in {PPU_tick(ppu)} : ppu' = r.ppu
    /\ obs' = [op |-> "tick", steps |-> obs.steps + 1, before |-> ppu]
    /\ UNCHANGED <<joypad1, cpu, status, desk, core, vmem>>

NextCtrl ==
    \/ \E data \in CtrlBytes : CtrlWrite(data)
    \/ CtrlStatusRead
    \/ CtrlPoll
    \/ CtrlTick

SpecCtrl == InitCtrl /\ [][NextCtrl]_vars

(* C38: a PPUCTRL write latches a pending NMI immediately if and only if   *)
(* it changes NMI-enable from 0 to 1 while the vblank flag is set; a       *)
(* PPUCTRL write that leaves NMI-enable unchanged, clears it, or is made   *)
(* while vblank is clear latches no NMI (the latch stays as it was).       *)
C38_LatchOnRisingEnable ==
    obs.op = "ctrl" =>
        IF ~generate_vblank_nmi(obs.before.ctrl)
              /\ generate_vblank_nmi(ppu.ctrl) /\ obs.before.vblank
        THEN ppu.nmi_interrupt
        ELSE ppu.nmi_interrupt = obs.before.nmi_interrupt

\* a write that sets NMI-enable in vertical blank, with no NMI pending
\* before it, has latched one
C38_Witness ==
    /\ obs.op = "ctrl"
    /\ ~generate_vblank_nmi(obs.before.ctrl) /\ generate_vblank_nmi(ppu.ctrl)
    /\ obs.before.vblank /\ ~obs.before.nmi_interrupt
    /\ ppu.nmi_interrupt

(***************************************************************************)
(* A frontend that calls emulate_frame until a frame is returned, over the *)
(* first frames after power-on.  The loop calls again whenever the         *)
(* emulator is running, which is the fairness assumed of it.               *)
(***************************************************************************)
\* frames followed
MaxLoopFrames == 2

\* the PPU dots of the longest frame: 262 scanlines of 341 dots
FRAME_DOTS == (LAST_SCANLINE + 1) * (LAST_CYCLE + 1)

\*   op       "none" | "start" | "emulate_frame"
\*   frame    the last call returned a frame
\*   ticked   the PPU dots the last call ran
\*   since    the PPU dots run since the last frame was returned (since
\*            power-on before the first), the last call's included
LoopObs0 == [ op |-> "none", frame |-> FALSE, ticked |-> 0, since |-> 0 ]

InitLoop ==
    /\ ppu = PPU_new
    /\ joypad1 = Joypad_new
    /\ cpu = CPU_new
    /\ status = "Stopped"
    /\ desk = Desk_new
    /\ core = Core_new
    /\ vmem = VMem_new
    /\ obs = LoopObs0

\* NES::start_emulation
LoopStart ==
    /\ status = "Stopped"
    /\ status' = "Running"
    /\ obs' = [obs EXCEPT !.op = "start"]
    /\ UNCHANGED <<ppu, joypad1, cpu, desk, core, vmem>>

\* one pass of the frontend's loop: is_running(), then emulate_frame()
LoopEmulate(instr) ==
    /\ status = "Running"
    /\ ppu.frame_count < MaxLoopFrames
    /\ \E r \in {NES_emulate_frame(cpu.cycles, ppu, instr)} :
       /\ ppu' = r.ppu
       /\ cpu' = r.cpu
       /\ obs' = [ op |-> "emulate_frame", frame |-> r.frame,
                   ticked |-> r.tick.dots,
                   since |-> (IF obs.frame THEN 0 ELSE obs.since)
                             + r.tick.dots ]
    /\ UNCHANGED <<joypad1, status, desk, core, vmem>>

NextLoop ==
    \/ LoopStart
    \/ \E instr \in Program(ppu) : LoopEmulate(instr)

SpecLoop == InitLoop /\ [][NextLoop]_vars

\* the loop goes on calling while the emulator runs
SpecLoopFair ==
    SpecLoop /\ WF_vars(\E instr \in Program(ppu) : LoopEmulate(instr))

(* C39: on a running emulator repeated emulate_frame() calls eventually    *)
(* return a frame: every call advances the PPU by at least one dot, a      *)
(* frame is returned within 89,342 PPU dots of the previous one, and the   *)
(* loop that calls until a frame is returned terminates.                   *)
C39_FrameReturned ==
    /\ [](obs.op = "emulate_frame" => obs.ticked >= 1)
    /\ [](obs.since <= FRAME_DOTS)
    /\ \A n \in 0..(MaxLoopFrames - 1) :
          (status = "Running" /\ ppu.frame_count = n)
              ~> (obs.frame /\ ppu.frame_count = n + 1)

\* the second frame has been returned, a whole frame of dots after the
\* first, by a program that enabled the NMI
C39_Witness ==
    /\ obs.op = "emulate_frame" /\ obs.frame
    /\ ppu.frame_count = 2
    /\ obs.since = FRAME_DOTS
    /\ generate_vblank_nmi(ppu.ctrl)

(***************************************************************************)
(* The emulation status under start, pause and continue, called in any     *)
(* order between the frontend's frames.                                    *)
(***************************************************************************)
\* a pause that takes effect in every status
NES_pause_emulation_Always(st) == "Paused"

\* NES::start_emulation, NES::pause_emulation, NES::continue_emulation and
\* NES::is_running on the status
NES_start_emulation(st) == "Running"
NES_pause_emulation(st) == IF st = "Running" THEN "Paused" ELSE st
NES_continue_emulation(st) == IF st = "Paused" THEN "Running" ELSE st
NES_is_running(st) == st = "Running"

\* emulate_frame calls followed
MaxStatusCalls == 12

\*   op           "none" | "start" | "pause" | "continue" | "is_running" |
\*                "emulate_frame"
\*   before       the status before the last step
\*   started      start has been called
\*   is_running   what the last is_running() returned
\*   calls        emulate_frame calls made
StatusObs0 ==
    [ op |-> "none", before |-> "Stopped", started |-> FALSE,
      is_running |-> FALSE, calls |-> 0 ]

InitStatus ==
    /\ ppu = PPU_new
    /\ joypad1 = Joypad_new
    /\ cpu = CPU_new
    /\ status = "Stopped"
    /\ desk = Desk_new
    /\ core = Core_new
    /\ vmem = VMem_new
    /\ obs = StatusObs0

\* NES::load_rom_bytes, which ends with start_emulation
StatusStart ==
    /\ status' = NES_start_emulation(status)
    /\ obs' = [obs EXCEPT !.op = "start", !.before = status,
                          !.started = TRUE]
    /\ UNCHANGED <<ppu, joypad1, cpu, desk, core, vmem>>

\* NES::pause_emulation
StatusPause ==
    /\ status' = NES_pause_emulation(status)
    /\ obs' = [obs EXCEPT !.op = "pause", !.before = status]
    /\ UNCHANGED <<ppu, joypad1, cpu, desk, core, vmem>>

\* NES::continue_emulation
StatusContinue ==
    /\ status' = NES_continue_emulation(status)
    /\ obs' = [obs EXCEPT !.op = "continue", !.before = status]
    /\ UNCHANGED <<ppu, joypad1, cpu, desk, core, vmem>>

\* NES::is_running
StatusIsRunning ==
    /\ obs' = [obs EXCEPT !.op = "is_running", !.before = status,
                          !.is_running = NES_is_running(status)]
    /\ UNCHANGED <<ppu, joypad1, cpu, status, desk, core, vmem>>

\* the frontend's frame step: emulate_frame when is_running()
StatusEmulate(instr) ==
    /\ NES_is_running(status)
    /\ obs.calls < MaxStatusCalls
    /\ \E r \in {NES_emulate_frame(cpu.cycles, ppu, instr)} :
       /\ ppu' = r.ppu
       /\ cpu' = r.cpu
    /\ obs' = [obs EXCEPT !.op = "emulate_frame", !.before = status,
                          !.calls = @ + 1]
    /\ UNCHANGED <<joypad1, status, desk, core, vmem>>

NextStatus ==
    \/ StatusStart
    \/ StatusPause
    \/ StatusContinue
    \/ StatusIsRunning
    \/ \E instr \in TwinIdleInstructions : StatusEmulate(instr)

SpecStatus == InitStatus /\ [][NextStatus]_vars

\* what the operations other than start do, and what holds of every status
StatusRules ==
    /\ status # obs.before =>
          <<obs.before, status>> \in { <<"Stopped", "Running">>,
                                       <<"Running", "Paused">>,
                                       <<"Paused", "Running">> }
    /\ (status # obs.before /\ obs.before = "Stopped") => obs.op = "start"
    /\ (status # obs.before /\ obs.before = "Running") => obs.op = "pause"
    /\ obs.op = "pause" =>
          status = (IF obs.before = "Running" THEN "Paused" ELSE obs.before)
    /\ obs.op = "continue" =>
          status = (IF obs.before = "Paused" THEN "Running" ELSE obs.before)
    /\ obs.started => status # "Stopped"
    /\ obs.op = "is_running" => (obs.is_running <=> status = "Running")

(* C40: the emulation status moves only Stopped -> Running (start),        *)
(* Running -> Paused (pause) and Paused -> Running (continue): pause in    *)
(* any status other than Running and continue in any status other than     *)
(* Paused leave the status unchanged, Stopped is never re-entered after a  *)
(* start, and is_running() is true exactly when the status is Running.     *)
C40_MovesAsLabelled ==
    /\ StatusRules
    /\ (status # obs.before /\ obs.before = "Paused") => obs.op = "continue"

(* C40, as the code has it: the status moves Stopped -> Running and        *)
(* Paused -> Running on start, Running -> Paused on pause and              *)
(* Paused -> Running on continue, and in no other way; pause in any status *)
(* other than Running and continue in any status other than Paused leave   *)
(* it unchanged, start leaves it Running from every status, Stopped is     *)
(* never re-entered after a start, and is_running() is true exactly when   *)
(* the status is Running.                                                  *)
C40_StatusMoves ==
    /\ StatusRules
    /\ (status # obs.before /\ obs.before = "Paused") =>
          obs.op \in {"continue", "start"}
    /\ obs.op = "start" => status = "Running"

\* a start made while the emulator was paused, after frame steps, has set
\* it running
C40_Witness ==
    /\ obs.op = "start" /\ obs.before = "Paused" /\ status = "Running"
    /\ obs.calls >= 1 /\ obs.started

====
